---- MODULE Spec2Model ----
(***************************************************************************)
(* Model of the vortex container runtime (Dague04/vortex-runtime).         *)
(*                                                                         *)
(* Spec     : the CGroup v2 controller (vortex-cgroup/src/controller.rs)  *)
(*            driven through its public operations, together with the     *)
(*            CLI commands stats, list and stop that build controllers.   *)
(* SpecRun  : one `run` of the top-level runner                           *)
(*            (vortex-cli/src/commands/run.rs) with the execution         *)
(*            supervisor (vortex-namespace/src/executor.rs).              *)
(* SpecWait : the supervisor at wait_for_child, started from every wait   *)
(*            status waitpid can report.                                  *)
(* SpecMock : one MockBackend (vortex-cgroup/src/backend.rs) called from  *)
(*            concurrent tasks, each call under the state mutex.          *)
(* SpecMon  : one ResourceMonitor (vortex-cgroup/src/monitor.rs) over a   *)
(*            MockBackend, with its task, its bounded event channel and   *)
(*            the consumer; SpecMonFair adds that the spawned task is     *)
(*            scheduled whenever it can take a step.                      *)
(* SpecLimits : set_cpu_limit and set_memory_limit on live controllers.   *)
(* SpecQuota : CpuCores::to_quota applied to every input.                 *)
(* SpecId   : the constructors of ContainerId applied to every input.     *)
(* SpecNs   : one NamespaceManager whose create() is called repeatedly.   *)
(* SpecIo   : CGroupController::new and stats() applied to every state   *)
(*            of the files they read and write.                            *)
(* SpecTasks : tasks sharing one MockBackend, each call taking the mutex. *)
(* SpecExec : NamespaceExecutor::execute at the level of its pipes and    *)
(*            file descriptors, with the child writing to them.           *)
(***************************************************************************)
EXTENDS Integers, FiniteSets, Sequences, TLC

\* ------------------------------------------------------------------ bounds
MaxCtl == 2          \* controller handles that may be constructed
MaxPid == 1          \* processes that may be attached to cgroups

Handles == 1..MaxCtl
Pids    == 1..MaxPid
Ids     == {"a", "b"}            \* validated container ids

\* ------------------------------------------------------- program constants
PERIOD == 100000                 \* resources.rs: const PERIOD
MB     == 1048576                \* resources.rs: from_mb, 1024 * 1024

VARIABLES
    fs,      \* the cgroup v2 tree under /sys/fs/cgroup, as the kernel shows it
    ctl,     \* the CGroupController values: {container_id, path, active}
    last,    \* the last operation carried out and what it returned
    run,     \* the runner process (commands/run.rs::execute)
    child,   \* the forked child of the execution supervisor
    mock,    \* a MockBackend: the MockState behind its mutex
    mon,     \* a ResourceMonitor, its task, its event channel and consumer
    calc     \* a call of a pure function: its name, argument and result

vars == <<fs, ctl, last, run, child, mock, mon, calc>>

\* ---------------------------------------------------------------- the tree
\* vortex : /sys/fs/cgroup/vortex exists
\* leaf   : /sys/fs/cgroup/vortex/<id> exists
\* cg     : the cgroup each process is a member of ("root" or a leaf id);
\*          cgroup.procs of leaf i is {p : cg[p] = i}
\* cpuMax, memMax, swapMax : contents of the leaf's limit files
FsInit ==
    [ vortex  |-> FALSE,
      leaf    |-> [i \in Ids |-> FALSE],
      cg      |-> [p \in Pids |-> "root"],
      cpuMax  |-> [i \in Ids |-> "max"],
      memMax  |-> [i \in Ids |-> "max"],
      swapMax |-> [i \in Ids |-> "max"] ]

procs(f, id) == {p \in Pids : f.cg[p] = id}

\* CpuCores::to_quota: (self.0 * PERIOD as f64) as i64.  Cores are given in
\* millionths, so that the exact product cores * 100000 is a whole number of
\* tenths of a microsecond.  InexactBelow holds the inputs used here whose f64
\* product is not the exact product but the nearest double just below it
\* (IEEE 754 binary64, round to nearest even): 0.29 * 100000.0 =
\* 28999.999999999996.
InexactBelow ==
    {290000, 570000, 580000, 1130000, 1140000, 1150000, 1160000, 2010000,
     2030000, 2050000, 2070000, 2260000, 2280000, 2300000, 2320000, 2510000,
     2530000, 2550000, 2570000}

\* self.0 * PERIOD as f64, in tenths of a microsecond, rounded down.
mul_period(cores) ==
    IF cores \in InexactBelow THEN cores - 1 ELSE cores

\* to_quota: the product cast with `as i64`, which drops the fraction.
to_quota(cores) == <<mul_period(cores) \div 10, PERIOD>>

\* set_cpu_limit: format!("{quota} {period}")
cpu_max_content(cores) ==
    ToString(to_quota(cores)[1]) \o " " \o ToString(to_quota(cores)[2])

\* MemorySize::from_mb(..).as_bytes()
from_mb(mb) == mb * MB

\* set_memory_limit: limit.as_bytes().to_string()
bytes_content(size) == ToString(size)

\* create_directory_hierarchy: mkdir -p vortex, mkdir -p vortex/<id>.
\* An existing leaf is adopted as it is; a new one has the kernel's defaults.
create_directory_hierarchy(f, id) ==
    IF f.leaf[id] THEN f
    ELSE [f EXCEPT !.vortex = TRUE, !.leaf[id] = TRUE,
                   !.cpuMax[id] = "max", !.memMax[id] = "max",
                   !.swapMax[id] = "max"]

\* move_processes_to_root: read cgroup.procs, write each pid to the root
\* cgroup.procs; `moved` are the pids whose write the kernel accepted.
move_processes_to_root(f, id, moved) ==
    IF ~f.leaf[id] THEN f
    ELSE [f EXCEPT !.cg = [p \in Pids |->
                     IF f.cg[p] = id /\ p \in moved THEN "root" ELSE f.cg[p]]]

\* remove_cgroup_directory: rmdir of the leaf; ENOENT and EBUSY are ignored.
remove_cgroup_directory(f, id) ==
    IF f.leaf[id] /\ procs(f, id) = {}
    THEN [f EXCEPT !.leaf[id] = FALSE]
    ELSE f

\* ------------------------------------------------------------- controllers
NoCtl == [st |-> "none", id |-> "a", active |-> FALSE,
          nReparent |-> 0, nRmdir |-> 0]

NewCtl(id) == [st |-> "live", id |-> id, active |-> TRUE,
               nReparent |-> 0, nRmdir |-> 0]

Step(c, f, touched) == [c |-> c, f |-> f, touched |-> touched]

\* The body shared by cleanup() and drop(): reparent, (sleep), rmdir,
\* active = false.
teardown(c, f, moved) ==
    Step([c EXCEPT !.active = FALSE,
                   !.nReparent = @ + 1, !.nRmdir = @ + 1],
         remove_cgroup_directory(move_processes_to_root(f, c.id, moved), c.id),
         TRUE)

cleanup_unguarded(c, f, moved) == teardown(c, f, moved)

\* A cleanup that removes the directory before it reparents the processes.
cleanup_rmdir_first(c, f, moved) ==
    IF ~c.active THEN Step(c, f, FALSE)
    ELSE Step([c EXCEPT !.active = FALSE,
                        !.nReparent = @ + 1, !.nRmdir = @ + 1],
              move_processes_to_root(remove_cgroup_directory(f, c.id), c.id, moved),
              TRUE)

\* CGroupController::cleanup(&mut self)
cleanup(c, f, moved) ==
    IF ~c.active THEN Step(c, f, FALSE) ELSE teardown(c, f, moved)

\* A dropped value is gone; only the count of what it did is kept.
Dropped(c) == [NoCtl EXCEPT !.st = "dropped",
                            !.nReparent = c.nReparent, !.nRmdir = c.nRmdir]

drop_nothing(c, f, moved) == Step(Dropped(c), f, FALSE)

\* A drop that does not look at the active flag.
drop_unguarded(c, f, moved) ==
    LET t == teardown(c, f, moved)
    IN Step(Dropped(t.c), t.f, TRUE)

\* impl Drop for CGroupController
drop(c, f, moved) ==
    IF ~c.active THEN Step(Dropped(c), f, FALSE)
    ELSE LET t == teardown(c, f, moved)
         IN Step(Dropped(t.c), t.f, TRUE)

\* <ResourceBackend for CGroupController>::cleanup(&self): logs a warning.
ResourceBackend_cleanup(c, f) == Step(c, f, FALSE)

Last(op, h, ret, touched, wasActive) ==
    [op |-> op, h |-> h, ret |-> ret, touched |-> touched,
     wasActive |-> wasActive]

Live(h) == ctl[h].st = "live"

\* ------------------------------------------------- controller operations
\* CGroupController::new(id).  The value is built with active = true before
\* create() runs; when create() fails the value is dropped on the way out.
New(h, id, ok) ==
    /\ ctl[h].st = "none"
    /\ \A g \in Handles : g < h => ctl[g].st # "none"
    /\ IF ok
       THEN /\ fs' = create_directory_hierarchy(fs, id)
            /\ ctl' = [ctl EXCEPT ![h] = NewCtl(id)]
            /\ last' = Last("new", h, "Ok", TRUE, FALSE)
       ELSE LET d == drop(NewCtl(id), fs, {})
            IN /\ fs' = d.f
               /\ ctl' = [ctl EXCEPT ![h] = d.c]
               /\ last' = Last("new", h, "Err", TRUE, FALSE)
    /\ UNCHANGED <<run, child, mock, mon, calc>>

\* <ResourceBackend for CGroupController>::set_cpu_limit
set_cpu_limit(h, cores, ioOk) ==
    /\ Live(h)
    /\ LET id == ctl[h].id
           ok == fs.leaf[id] /\ ioOk
       IN /\ fs' = IF ok THEN [fs EXCEPT !.cpuMax[id] = cpu_max_content(cores)] ELSE fs
          /\ last' = Last("set_cpu_limit", h, IF ok THEN "Ok" ELSE "Err",
                          TRUE, ctl[h].active)
    /\ UNCHANGED <<ctl, run, child, mock, mon, calc>>

\* <ResourceBackend for CGroupController>::set_memory_limit
set_memory_limit(h, limit, ioOk, swapOk) ==
    /\ Live(h)
    /\ LET id == ctl[h].id
           okMem == fs.leaf[id] /\ ioOk
           okSwap == limit.swap = 0 \/ swapOk
           ok == okMem /\ okSwap
       IN /\ fs' = IF okMem
                   THEN [fs EXCEPT !.memMax[id] = bytes_content(from_mb(limit.limit)),
                                   !.swapMax[id] =
                                       IF limit.swap # 0 /\ swapOk
                                         THEN bytes_content(from_mb(limit.swap))
                                         ELSE @]
                   ELSE fs
          /\ last' = Last("set_memory_limit", h, IF ok THEN "Ok" ELSE "Err",
                          TRUE, ctl[h].active)
    /\ UNCHANGED <<ctl, run, child, mock, mon, calc>>

\* <ResourceBackend for CGroupController>::add_process
add_process(h, pid) ==
    /\ Live(h)
    /\ LET id == ctl[h].id
           ok == fs.leaf[id]
       IN /\ fs' = IF ok THEN [fs EXCEPT !.cg[pid] = id] ELSE fs
          /\ last' = Last("add_process", h, IF ok THEN "Ok" ELSE "Err",
                          TRUE, ctl[h].active)
    /\ UNCHANGED <<ctl, run, child, mock, mon, calc>>

\* <ResourceBackend for CGroupController>::stats: reads cpu.stat,
\* memory.current, memory.peak, swap files and io.stat of the leaf.
stats_result(f, id) == IF f.leaf[id] THEN "Ok" ELSE "Err"

stats(h) ==
    /\ Live(h)
    /\ last' = Last("stats", h, stats_result(fs, ctl[h].id), TRUE, ctl[h].active)
    /\ UNCHANGED <<fs, ctl, run, child, mock, mon, calc>>

TraitCleanup(h) ==
    /\ Live(h)
    /\ LET s == ResourceBackend_cleanup(ctl[h], fs)
       IN /\ fs' = s.f
          /\ ctl' = [ctl EXCEPT ![h] = s.c]
          /\ last' = Last("trait_cleanup", h, "Ok", s.touched, ctl[h].active)
    /\ UNCHANGED <<run, child, mock, mon, calc>>

Cleanup(h, moved) ==
    /\ Live(h)
    /\ LET s == cleanup(ctl[h], fs, moved)
       IN /\ fs' = s.f
          /\ ctl' = [ctl EXCEPT ![h] = s.c]
          /\ last' = Last("cleanup", h, "Ok", s.touched, ctl[h].active)
    /\ UNCHANGED <<run, child, mock, mon, calc>>

Drop(h, moved) ==
    /\ Live(h)
    /\ LET s == drop(ctl[h], fs, moved)
       IN /\ fs' = s.f
          /\ ctl' = [ctl EXCEPT ![h] = s.c]
          /\ last' = Last("drop", h, "Ok", s.touched, ctl[h].active)
    /\ UNCHANGED <<run, child, mock, mon, calc>>

\* ------------------------------------------------------------ CLI commands
\* commands/stats.rs::execute: new(id), stats(), print; the controller is a
\* local and is dropped, still active, when the function returns.
StatsCmd(id, ok, moved) ==
    /\ LET c0 == NewCtl(id)
           f0 == IF ok THEN create_directory_hierarchy(fs, id) ELSE fs
           d  == drop(c0, f0, moved)
       IN /\ fs' = d.f
          /\ last' = Last("stats_cmd", 0,
                          IF ok THEN stats_result(f0, id) ELSE "Err",
                          TRUE, FALSE)
    /\ UNCHANGED <<ctl, run, child, mock, mon, calc>>

\* commands/list.rs::execute: for every directory entry of vortex/ with a
\* valid id: new(id), stats(), print; each controller is dropped, still
\* active, at the end of its `if let`.
RECURSIVE list_entries(_, _, _)
list_entries(f, todo, moved) ==
    IF todo = {} THEN f
    ELSE LET id == CHOOSE i \in todo : TRUE
             d  == drop(NewCtl(id), create_directory_hierarchy(f, id), moved)
         IN list_entries(d.f, todo \ {id}, moved)

ListCmd(moved) ==
    /\ fs' = IF ~fs.vortex THEN fs
             ELSE list_entries(fs, {i \in Ids : fs.leaf[i]}, moved)
    /\ last' = Last("list_cmd", 0, "Ok", TRUE, FALSE)
    /\ UNCHANGED <<ctl, run, child, mock, mon, calc>>

\* commands/stop.rs::execute: new(id), cleanup() on the `mut` controller,
\* then the inactive controller is dropped.
StopCmd(id, ok, moved) ==
    /\ LET c0 == NewCtl(id)
           f0 == IF ok THEN create_directory_hierarchy(fs, id) ELSE fs
           s  == IF ok THEN cleanup(c0, f0, moved) ELSE Step(c0, f0, TRUE)
           d  == drop(s.c, s.f, moved)
       IN /\ fs' = d.f
          /\ last' = Last("stop_cmd", 0, IF ok THEN "Ok" ELSE "Err", TRUE, FALSE)
    /\ UNCHANGED <<ctl, run, child, mock, mon, calc>>

\* ------------------------------------------------------------------ inputs
CpuInputs == {1500000}                   \* cores, in millionths
MemInputs == {[limit |-> 512, swap |-> 0]}   \* MB; swap 0 stands for None

\* ------------------------------------------------------------ MockBackend
MaxCalls == 5        \* backend calls counted by one MockState
MaxTasks == 2        \* tasks that share one MockBackend
MaxTaskCalls == 4    \* backend calls these tasks make in all

Tasks == 1..MaxTasks

\* ResourceStats::default(): durations in milliseconds, sizes in bytes.
ResourceStats_default ==
    [ cpu_usage |-> 0, cpu_throttled |-> 0, memory_current |-> 0,
      memory_peak |-> 0, swap_peak |-> 0 ]

\* MockState::default()
MockState_default ==
    [ cpu_limit |-> 0, memory_limit |-> [limit |-> 0, swap |-> 0],
      processes |-> <<>>,
      stats |-> ResourceStats_default, call_count |-> 0 ]

\* The mock with what its callers have seen: the last two snapshots stats()
\* returned since the backend was created or cleaned up (seen counts them),
\* and whether cleanup() or set_mock_stats() has ever replaced its snapshot.
\* lock is the task holding the state mutex (0: none) and tasks is where
\* each task sharing the backend stands in its current call.
\* started counts the calls begun; serial, made, added, lastCpu and cleaned
\* record the calls completed so far: the state
\* they give when applied one after the other, their number, the pids they
\* added, the last cpu limit they set, and whether cleanup() was one of them.
NoArg == [cpu |-> 0, mem |-> [limit |-> 0, swap |-> 0], pid |-> 0]

IdleTask == [pc |-> "idle", op |-> "none", arg |-> NoArg,
             view |-> MockState_default]

MockInit ==
    [ state |-> MockState_default, seen |-> 0,
      prev |-> ResourceStats_default, cur |-> ResourceStats_default,
      replaced |-> FALSE,
      lock |-> 0, tasks |-> [t \in Tasks |-> IdleTask], started |-> 0,
      serial |-> MockState_default, made |-> 0, added |-> {},
      lastCpu |-> 0, cleaned |-> FALSE ]

Min(a, b) == IF a <= b THEN a ELSE b

as_mb(bytes) == bytes \div MB

Contains(seq, x) == \E i \in 1..Len(seq) : seq[i] = x

MockBackend_set_cpu_limit_resetting(st, limit) ==
    [MockState_default EXCEPT !.cpu_limit = limit, !.call_count = st.call_count + 1]

MockBackend_set_cpu_limit(st, limit) ==
    [st EXCEPT !.cpu_limit = limit, !.call_count = @ + 1]

MockBackend_set_memory_limit(st, limit) ==
    [st EXCEPT !.memory_limit = limit, !.call_count = @ + 1]

MockBackend_add_process(st, pid) ==
    [st EXCEPT !.processes = IF Contains(@, pid) THEN @ ELSE Append(@, pid),
               !.call_count = @ + 1]

\* A stats() that counts the call but leaves the cpu time where it was.
MockBackend_stats_frozen(st) ==
    [st EXCEPT !.call_count = @ + 1]

\* MockBackend::stats: the state after the call; the snapshot returned is
\* its stats field.
MockBackend_stats(st) ==
    LET current == from_mb(Min(as_mb(st.stats.memory_current) + 10, 500)) IN
    [st EXCEPT !.call_count = @ + 1,
               !.stats.cpu_usage = @ + 100,
               !.stats.memory_current = current,
               !.stats.memory_peak = IF current > @ THEN current ELSE @]

MockBackend_cleanup(st) == MockState_default

\* ---- the calls as tasks make them: lock().await, the body on the guarded
\* state, the guard dropped at the end of the function
\* A lock that is always granted.
try_lock_without_mutex(holder) == TRUE

\* self.state.lock().await is granted when no task holds the mutex.
try_lock(holder) == holder = 0

\* The body of a call on the state the guard gives access to.
Apply(op, st, arg) ==
    CASE op = "set_cpu_limit" -> MockBackend_set_cpu_limit(st, arg.cpu)
      [] op = "set_memory_limit" -> MockBackend_set_memory_limit(st, arg.mem)
      [] op = "add_process" -> MockBackend_add_process(st, arg.pid)
      [] op = "stats" -> MockBackend_stats(st)
      [] OTHER -> MockBackend_cleanup(st)

\* A task calls a method of the backend.
TaskCall(t, op, arg) ==
    /\ mock.tasks[t].pc = "idle"
    /\ mock.started < MaxTaskCalls
    /\ mock' = [mock EXCEPT !.tasks[t].pc = "lock", !.tasks[t].op = op,
                            !.tasks[t].arg = arg, !.started = @ + 1]
    /\ UNCHANGED <<fs, ctl, last, run, child, mon, calc>>

\* let mut state = self.state.lock().await;
TaskLock(t) ==
    /\ mock.tasks[t].pc = "lock"
    /\ try_lock(mock.lock)
    /\ mock' = [mock EXCEPT !.lock = t, !.tasks[t].pc = "locked",
                            !.tasks[t].view = mock.state]
    /\ UNCHANGED <<fs, ctl, last, run, child, mon, calc>>

\* The body writes the state back, the function returns and the guard is
\* dropped.
TaskReturn(t) ==
    /\ mock.tasks[t].pc = "locked"
    /\ LET k == mock.tasks[t] IN
       mock' = [mock EXCEPT
                  !.state = Apply(k.op, k.view, k.arg),
                  !.lock = IF @ = t THEN 0 ELSE @,
                  !.tasks[t] = IdleTask,
                  !.serial = Apply(k.op, @, k.arg),
                  !.made = IF k.op = "cleanup" THEN 0 ELSE @ + 1,
                  !.added = IF k.op = "cleanup" THEN {}
                            ELSE IF k.op = "add_process" THEN @ \cup {k.arg.pid}
                            ELSE @,
                  !.lastCpu = IF k.op = "cleanup" THEN 0
                              ELSE IF k.op = "set_cpu_limit" THEN k.arg.cpu
                              ELSE @,
                  !.cleaned = @ \/ k.op = "cleanup"]
    /\ UNCHANGED <<fs, ctl, last, run, child, mon, calc>>

\* ---- the calls, each made under the state mutex
MockSetCpu(limit) ==
    /\ mock.state.call_count < MaxCalls
    /\ mock' = [mock EXCEPT !.state = MockBackend_set_cpu_limit(@, limit)]
    /\ UNCHANGED <<fs, ctl, last, run, child, mon, calc>>

MockSetMem(limit) ==
    /\ mock.state.call_count < MaxCalls
    /\ mock' = [mock EXCEPT !.state = MockBackend_set_memory_limit(@, limit)]
    /\ UNCHANGED <<fs, ctl, last, run, child, mon, calc>>

MockAddProcess(pid) ==
    /\ mock.state.call_count < MaxCalls
    /\ mock' = [mock EXCEPT !.state = MockBackend_add_process(@, pid)]
    /\ UNCHANGED <<fs, ctl, last, run, child, mon, calc>>

MockStats ==
    /\ mock.state.call_count < MaxCalls
    /\ LET st == MockBackend_stats(mock.state) IN
       mock' = [mock EXCEPT !.state = st, !.seen = Min(@ + 1, 2),
                            !.prev = mock.cur, !.cur = st.stats]
    /\ UNCHANGED <<fs, ctl, last, run, child, mon, calc>>

MockCleanup ==
    /\ mock' = [MockInit EXCEPT !.state = MockBackend_cleanup(mock.state),
                                !.replaced = TRUE]
    /\ UNCHANGED <<fs, ctl, last, run, child, mon, calc>>

\* -------------------------------------------------------- ResourceMonitor
MaxTicks == 3        \* ticks of one monitor task on which stats() is called
MaxErrs  == 2        \* ticks of one monitor task on which stats() fails
ChanCap  == 2        \* capacity of the bounded event channel

\* MockBackend::set_mock_stats(stats): the snapshots a test may install.
MockStatsInputs ==
    { [ResourceStats_default EXCEPT !.cpu_throttled = 300],
      [ResourceStats_default EXCEPT !.cpu_throttled = 100],
      [ResourceStats_default EXCEPT !.memory_current = from_mb(440),
                                    !.memory_peak = from_mb(500)] }

SetMockStats(snap) ==
    /\ mock.state.stats # snap
    /\ mock' = [mock EXCEPT !.state.stats = snap, !.replaced = TRUE]
    /\ UNCHANGED <<fs, ctl, last, run, child, mon, calc>>

\* ContainerEvent values, with the fields the monitor fills in.
Started(id) == [kind |-> "Started", id |-> id, stats |-> ResourceStats_default, val |-> 0]
CpuThrottled(id, duration) ==
    [kind |-> "CpuThrottled", id |-> id, stats |-> ResourceStats_default, val |-> duration]
MemoryPressure(id, pct) ==
    [kind |-> "MemoryPressure", id |-> id, stats |-> ResourceStats_default, val |-> pct]
StatsUpdate(id, snap) == [kind |-> "StatsUpdate", id |-> id, stats |-> snap, val |-> 0]

NoSample == [some |-> FALSE, s |-> ResourceStats_default]
Sample(s) == [some |-> TRUE, s |-> s]

\* A monitor built by ResourceMonitor::new(backend, id, interval), with or
\* without with_events(tx).  task: "none" (not spawned), "emit" (sending the
\* events of outbox, in order), "tick" (awaiting the ticker), "done",
\* "panicked".  log is every event the channel has accepted, in order.
\* nErr counts the ticks on which stats() failed, lastErr is the last error
\* and reported counts the errors written to stderr.
MonInit(id, hasTx) ==
    [ id |-> id, hasTx |-> hasTx, running |-> FALSE,
      startCalled |-> FALSE, stopCalled |-> FALSE,
      task |-> "none", last_stats |-> NoSample, pending |-> NoSample,
      outbox |-> <<>>, chan |-> <<>>, rx |-> "open", log |-> <<>>,
      nOk |-> 0, nUpdates |-> 0,
      nErr |-> 0, lastErr |-> <<>>, reported |-> 0 ]

MonNone == MonInit("a", FALSE)

no_first_events(m) == <<>>

\* start(), lines 115-123: the Started event, when there is a sink.
first_events(m) == IF m.hasTx THEN <<Started(m.id)>> ELSE <<>>

\* get_memory_limit: the peak, when it is above the current usage.
get_memory_limit(snap) ==
    IF snap.memory_peak > snap.memory_current
      THEN [some |-> TRUE, limit |-> snap.memory_peak]
      ELSE [some |-> FALSE, limit |-> 0]

\* (current / limit) * 100, on sizes that are whole megabytes.
percentage(current, limit) == (as_mb(current) * 100) \div as_mb(limit)

\* A monitor that reports throttling from 100 ms on.
tick_events_from_100ms(m, s) ==
    IF ~m.hasTx THEN <<>>
    ELSE LET delta == s.cpu_throttled - m.last_stats.s.cpu_throttled
         IN (IF m.last_stats.some /\ delta >= 100
               THEN <<CpuThrottled(m.id, delta)>> ELSE <<>>)
              \o <<StatsUpdate(m.id, s)>>

\* The events of one tick on which stats() returned s (lines 141-187).
tick_events(m, s) ==
    IF ~m.hasTx THEN <<>>
    ELSE LET prev == m.last_stats.s
             delta == s.cpu_throttled - prev.cpu_throttled
             lim == get_memory_limit(s)
             throttled ==
                 IF m.last_stats.some /\ delta > 100
                   THEN <<CpuThrottled(m.id, delta)>> ELSE <<>>
             pressure ==
                 IF /\ m.last_stats.some
                    /\ s.memory_current > prev.memory_current
                    /\ lim.some
                    /\ as_mb(s.memory_current) * 100 > 80 * as_mb(lim.limit)
                   THEN <<MemoryPressure(m.id, percentage(s.memory_current, lim.limit))>>
                   ELSE <<>>
         IN throttled \o pressure \o <<StatsUpdate(m.id, s)>>

\* Duration subtraction panics when the result would be negative.
sub_panics(m, s) == m.last_stats.some /\ s.cpu_throttled < m.last_stats.s.cpu_throttled

\* tx.send(event).await: Err at once when the receiver is gone, otherwise the
\* event is queued as soon as the channel has room; until then the sender
\* waits.
CanSend(m) == m.rx = "closed" \/ Len(m.chan) < ChanCap

send(m, event) ==
    IF m.rx = "closed" THEN m
    ELSE [m EXCEPT !.chan = Append(@, event), !.log = Append(@, event)]

\* The iteration is over once outbox is empty: last_stats = Some(s).
end_of_emit(m) ==
    IF m.outbox # <<>> THEN m
    ELSE [m EXCEPT !.task = "tick",
                   !.last_stats = IF m.pending.some THEN m.pending ELSE @,
                   !.pending = NoSample]

\* ---- the monitor's operations and its task
\* start() is called once per monitor, as all its callers do.
MonStart ==
    /\ ~mon.startCalled
    /\ mon' = end_of_emit([mon EXCEPT !.running = TRUE, !.startCalled = TRUE,
                                      !.task = "emit",
                                      !.outbox = first_events(mon)])
    /\ UNCHANGED <<fs, ctl, last, run, child, mock, calc>>

\* stop() may be called at any time, any number of times; stopCalled
\* records a stop() that came after start().
MonStop ==
    /\ mon' = [mon EXCEPT !.running = FALSE, !.stopCalled = @ \/ mon.startCalled]
    /\ UNCHANGED <<fs, ctl, last, run, child, mock, calc>>

\* The task sends the next event of this iteration.
TaskEmit ==
    /\ mon.task = "emit"
    /\ mon.outbox # <<>>
    /\ CanSend(mon)
    /\ LET e == Head(mon.outbox)
           m == send([mon EXCEPT !.outbox = Tail(@)], e) IN
       mon' = end_of_emit([m EXCEPT !.nUpdates =
                               IF e.kind = "StatsUpdate" THEN @ + 1 ELSE @])
    /\ UNCHANGED <<fs, ctl, last, run, child, mock, calc>>

\* ticker.tick(), the check of the running flag, and backend.stats().
TaskTick ==
    /\ mon.task = "tick"
    /\ IF ~mon.running
         THEN /\ mon' = [mon EXCEPT !.task = "done"]
              /\ mock' = mock
         ELSE /\ mon.nOk < MaxTicks
              /\ LET st == MockBackend_stats(mock.state)
                     s == st.stats IN
                 /\ mock' = [mock EXCEPT !.state = st, !.seen = Min(@ + 1, 2),
                                          !.prev = mock.cur, !.cur = s]
                 /\ mon' = IF sub_panics(mon, s)
                             THEN [mon EXCEPT !.task = "panicked", !.nOk = @ + 1]
                             ELSE end_of_emit([mon EXCEPT !.task = "emit", !.nOk = @ + 1,
                                                          !.pending = Sample(s),
                                                          !.outbox = tick_events(mon, s)])
    /\ UNCHANGED <<fs, ctl, last, run, child, calc>>

\* The errors stats() of a backend returns, as the pieces of their Display
\* text: the leaf is gone, cpu.stat is unreadable, memory.current does not
\* parse.
StatsErrors ==
    { <<"CGroup error: Failed to read cpu.stat: ", "No such file",
        " or directory (os error 2)">>,
      <<"CGroup error: Failed to read cpu.stat: ",
        "Permission denied (os error 13)">>,
      <<"CGroup error: Failed to parse memory.current value: ",
        "invalid digit found in string">> }

\* A monitor that takes every error for the end of the container.
container_exited_on_any_error(e) == TRUE

\* format!("{e}").contains("No such file")
container_exited(e) == Contains(e, "No such file")

\* ticker.tick(), the check of the running flag, and a backend.stats() that
\* returns Err(e): the Err arm of the match (lines 201-209).
TaskTickErr(e) ==
    /\ mon.task = "tick"
    /\ mon.running
    /\ mon.nErr < MaxErrs
    /\ mon' = IF container_exited(e)
                THEN [mon EXCEPT !.task = "done", !.nErr = @ + 1, !.lastErr = e]
                ELSE [mon EXCEPT !.nErr = @ + 1, !.lastErr = e,
                                 !.reported = @ + 1]
    /\ UNCHANGED <<fs, ctl, last, run, child, mock, calc>>

\* ---- the consumer of the channel
ConsumerRecv ==
    /\ mon.rx = "open"
    /\ mon.chan # <<>>
    /\ mon' = [mon EXCEPT !.chan = Tail(@)]
    /\ UNCHANGED <<fs, ctl, last, run, child, mock, calc>>

ConsumerDrop ==
    /\ mon.rx = "open"
    /\ mon' = [mon EXCEPT !.rx = "closed", !.chan = <<>>]
    /\ UNCHANGED <<fs, ctl, last, run, child, mock, calc>>

\* ---------------------------------------------------------- pure functions
\* A call of a pure function: fn names it, arg is its argument, out is what it
\* returned once done.
CalcNone == [fn |-> "none", arg |-> 0, out |-> 0, done |-> FALSE]

Call(fn, arg) == [fn |-> fn, arg |-> arg, out |-> 0, done |-> FALSE]

\* let (quota, period) = cores.to_quota();
ToQuota ==
    /\ calc.fn = "to_quota" /\ ~calc.done
    /\ calc' = [calc EXCEPT !.out = to_quota(calc.arg), !.done = TRUE]
    /\ UNCHANGED <<fs, ctl, last, run, child, mock, mon>>

\* ---- ContainerId (vortex-core/src/types.rs)
\* A string is a sequence of runs [ch, n]: the character ch repeated n >= 1
\* times.  The characters: an ASCII letter, '-', '_', '/', '.', and the
\* letter U+00E9, which char::is_alphanumeric accepts and UTF-8 encodes in
\* two bytes.
Chars == {"a", "-", "_", "/", ".", "e_acute"}

utf8_len(ch) == IF ch = "e_acute" THEN 2 ELSE 1

is_alphanumeric(ch) == ch \in {"a", "e_acute"}

MAX_LENGTH == 64

RECURSIVE len(_)
\* str::len: the length in bytes
len(s) == IF s = <<>> THEN 0 ELSE Head(s).n * utf8_len(Head(s).ch) + len(Tail(s))

\* validate without its check of the characters
validate_any_chars(id) ==
    IF id = <<>> THEN "InvalidConfig"
    ELSE IF len(id) > MAX_LENGTH THEN "InvalidConfig"
    ELSE "Ok"

validate(id) ==
    IF id = <<>> THEN "InvalidConfig"
    ELSE IF len(id) > MAX_LENGTH THEN "InvalidConfig"
    ELSE IF ~ \A i \in 1..Len(id) :
                is_alphanumeric(id[i].ch) \/ id[i].ch = "-" \/ id[i].ch = "_"
         THEN "InvalidConfig"
    ELSE "Ok"

NoId == <<>>

ContainerId_new(id) ==
    IF validate(id) = "Ok" THEN [tag |-> "Ok", id |-> id]
    ELSE [tag |-> validate(id), id |-> NoId]

from_str(s) == ContainerId_new(s)

try_from(s) == ContainerId_new(s)

\* #[serde(try_from = "String")]
deserialize(s) == try_from(s)

Constructors == {"ContainerId::new", "from_str", "try_from", "deserialize"}

MakeContainerId ==
    /\ calc.fn \in Constructors /\ ~calc.done
    /\ calc' = [calc EXCEPT !.done = TRUE,
                            !.out = CASE calc.fn = "ContainerId::new" -> ContainerId_new(calc.arg)
                                      [] calc.fn = "from_str" -> from_str(calc.arg)
                                      [] calc.fn = "try_from" -> try_from(calc.arg)
                                      [] OTHER -> deserialize(calc.arg)]
    /\ UNCHANGED <<fs, ctl, last, run, child, mock, mon>>

\* --------------------------------------------------- runner and supervisor
Main == 1                       \* the runner's controller
Mon  == 2                       \* the controller built by start_monitoring
ChildPid == 1                   \* the pid fork() gives the child

NoStatus == [kind |-> "None", val |-> 0]
Exited(code)  == [kind |-> "Exited", val |-> code]
Signaled(sig) == [kind |-> "Signaled", val |-> sig]

NoResult == [tag |-> "None", exit_code |-> 0, stdout |-> 0, stderr |-> 0]

\* ---- NamespaceConfig (vortex-namespace/src/config.rs)
NamespaceConfig_default ==
    [ pid |-> TRUE, network |-> TRUE, mount |-> TRUE, uts |-> TRUE, ipc |-> TRUE,
      user |-> FALSE, cgroup |-> TRUE, hostname |-> "none" ]

NamespaceConfig_new == NamespaceConfig_default

NamespaceConfig_minimal ==
    [ pid |-> TRUE, network |-> FALSE, mount |-> TRUE, uts |-> FALSE, ipc |-> FALSE,
      user |-> FALSE, cgroup |-> FALSE, hostname |-> "none" ]

with_hostname(config, h) == [config EXCEPT !.hostname = h]

with_pid(config, enable) == [config EXCEPT !.pid = enable]

with_mount(config, enable) == [config EXCEPT !.mount = enable]

\* NamespaceManager::new(config), with what the manager has done so far: the
\* calls of create(), the unshare and sethostname calls they made, and about
\* the last call whether it found created set and what it returned.
NamespaceManager_new(config) ==
    [ config |-> config, created |-> FALSE,
      calls |-> 0, nUnshare |-> 0, nSethostname |-> 0,
      lastFoundCreated |-> FALSE, lastRet |-> "none",
      lastUnshared |-> FALSE, lastSethostname |-> FALSE ]

to_clone_flags(config) ==
    (IF config.pid THEN {"CLONE_NEWPID"} ELSE {})
      \cup (IF config.network THEN {"CLONE_NEWNET"} ELSE {})
      \cup (IF config.mount THEN {"CLONE_NEWNS"} ELSE {})
      \cup (IF config.uts THEN {"CLONE_NEWUTS"} ELSE {})
      \cup (IF config.ipc THEN {"CLONE_NEWIPC"} ELSE {})
      \cup (IF config.user THEN {"CLONE_NEWUSER"} ELSE {})
      \cup (IF config.cgroup THEN {"CLONE_NEWCGROUP"} ELSE {})

has_any(config) ==
    config.pid \/ config.network \/ config.mount \/ config.uts
      \/ config.ipc \/ config.user \/ config.cgroup

Hostnames == {"none", "box"}    \* --hostname absent, or --hostname box

\* ---- one call of NamespaceExecutor::execute seen at its file descriptors
\* The four descriptors of the two pipes, named as in the code.
FdNames == {"stdout_pipe[0]", "stdout_pipe[1]", "stderr_pipe[0]", "stderr_pipe[1]"}

PipeCap  == 2        \* chunks a pipe holds before a write to it blocks
MaxWrite == 3        \* chunks the command writes to one stream at most

ReadEnd(which)  == IF which = "out" THEN "stdout_pipe[0]" ELSE "stderr_pipe[0]"

\* pc: where the caller stands in execute()/handle_parent(); fds: for each
\* descriptor whether pipe() made it and how many times the caller closed
\* its number; buf: the chunks in each pipe; got: the chunks read;
\* cpc, cwr, rem: the child, the stream it is writing to (if any) and the
\* chunks it has still to write to each stream.
ExecNone ==
    [ pc |-> "idle", ret |-> "none",
      fds |-> [n \in FdNames |-> [made |-> FALSE, closes |-> 0]],
      buf |-> [out |-> 0, err |-> 0], got |-> [out |-> 0, err |-> 0],
      cpc |-> "none", cwr |-> "none", rem |-> [out |-> 0, err |-> 0] ]

RunInit(id, enable_monitor) ==
    [ pc |-> "start", id |-> id, monitor |-> enable_monitor, created |-> FALSE,
      no_namespaces |-> FALSE, hostname |-> "none",
      config |-> NamespaceConfig_minimal, sigint |-> FALSE,
      stdout |-> 0, stderr |-> 0, result |-> NoResult,
      werrno |-> "none", ex |-> ExecNone,
      ret |-> "none", why |-> "none", exit |-> -1 ]

RunIdle == [RunInit("a", FALSE) EXCEPT !.pc = "idle"]

\* The child before fork: no namespace unshared, in the pid namespace and
\* with the hostname of the runner.
ChildNone ==
    [ pc |-> "none", status |-> NoStatus, out |-> 0, err |-> 0,
      execd |-> FALSE, execFailed |-> FALSE, cgAtExec |-> "root",
      ns |-> {}, pidns |-> "host", pidForChildren |-> "host",
      hostname |-> "host", sigterm |-> FALSE,
      heapLock |-> "free", allocated |-> FALSE, procRemount |-> "none",
      mgr |-> NamespaceManager_new(NamespaceConfig_minimal) ]

\* ------------------------------------------------------------- Spec
Init ==
    /\ fs = FsInit
    /\ ctl = [h \in Handles |-> NoCtl]
    /\ last = Last("init", 0, "Ok", FALSE, FALSE)
    /\ run = RunIdle
    /\ child = ChildNone
    /\ mock = MockInit
    /\ mon = MonNone
    /\ calc = CalcNone

\* What the environment may decide: whether mkdir of a missing leaf succeeds,
\* and which of the leaf's pids the kernel lets be moved to the root.
MkdirOutcomes(id) == IF fs.leaf[id] THEN {TRUE} ELSE BOOLEAN
Movable(id) == SUBSET procs(fs, id)
InLeaves == {p \in Pids : fs.cg[p] # "root"}

DoNew == \E h \in Handles, id \in Ids : \E ok \in MkdirOutcomes(id) : New(h, id, ok)
DoSetCpu == \E h \in Handles, c \in CpuInputs, ioOk \in BOOLEAN : set_cpu_limit(h, c, ioOk)
DoSetMem == \E h \in Handles, m \in MemInputs, ioOk \in BOOLEAN :
               \E swapOk \in (IF m.swap = 0 THEN {TRUE} ELSE BOOLEAN) :
                  set_memory_limit(h, m, ioOk, swapOk)
DoAddProcess == \E h \in Handles, p \in Pids : add_process(h, p)
DoStats == \E h \in Handles : stats(h)
DoTraitCleanup == \E h \in Handles : TraitCleanup(h)
DoCleanup == \E h \in Handles : \E moved \in Movable(ctl[h].id) : Cleanup(h, moved)
DoDrop == \E h \in Handles : \E moved \in Movable(ctl[h].id) : Drop(h, moved)
DoStatsCmd == \E id \in Ids : \E ok \in MkdirOutcomes(id), moved \in Movable(id) :
                 StatsCmd(id, ok, moved)
DoListCmd == \E moved \in SUBSET InLeaves : ListCmd(moved)
DoStopCmd == \E id \in Ids : \E ok \in MkdirOutcomes(id), moved \in Movable(id) :
                 StopCmd(id, ok, moved)

Next ==
    \/ DoNew
    \/ DoSetCpu
    \/ DoSetMem
    \/ DoAddProcess
    \/ DoStats
    \/ DoTraitCleanup
    \/ DoCleanup
    \/ DoDrop
    \/ DoStatsCmd
    \/ DoListCmd
    \/ DoStopCmd

Spec == Init /\ [][Next]_vars

\* ------------------------------------------------------------- SpecRun
\* `vortex run`: the runner of commands/run.rs, the supervisor and the child
\* of NamespaceExecutor, and a concurrent `vortex stats` on the same id.

ExitCodes == {0, 3}             \* exit codes the command may choose
Signals   == {9, 15}            \* signals that may end the command

\* main: an Err from the command makes the process exit 1, Ok lets it end 0.
main_exit(ret) == IF ret = "Err" THEN 1 ELSE 0

RunReturn(r, ret, why) ==
    [r EXCEPT !.pc = "returned", !.ret = ret, !.why = why, !.exit = main_exit(ret)]

\* The controller local leaves scope on a return of execute().
DropMain(moved) == drop(ctl[Main], fs, moved)

validate_environment(ok) ==
    /\ run.pc = "start"
    /\ run' = IF ok THEN [run EXCEPT !.pc = "new"] ELSE RunReturn(run, "Err", "validate")
    /\ UNCHANGED <<fs, ctl, last, child, mock, mon, calc>>

\* setup_cgroup_controller, first statement: CGroupController::new(id)?
setup_new(ok) ==
    /\ run.pc = "new"
    /\ IF ok
         THEN /\ fs' = create_directory_hierarchy(fs, run.id)
              /\ ctl' = [ctl EXCEPT ![Main] = NewCtl(run.id)]
              /\ run' = [run EXCEPT !.pc = "set_cpu", !.created = TRUE]
         ELSE LET d == drop(NewCtl(run.id), fs, {}) IN
              /\ fs' = d.f
              /\ ctl' = [ctl EXCEPT ![Main] = d.c]
              /\ run' = RunReturn(run, "Err", "new")
    /\ UNCHANGED <<last, child, mock, mon, calc>>

\* setup_cgroup_controller: controller.set_cpu_limit(cpu)?
setup_cpu(cores, ioOk, moved) ==
    /\ run.pc = "set_cpu"
    /\ IF fs.leaf[run.id] /\ ioOk
         THEN /\ fs' = [fs EXCEPT !.cpuMax[run.id] = cpu_max_content(cores)]
              /\ run' = [run EXCEPT !.pc = "set_mem"]
              /\ ctl' = ctl
         ELSE LET d == DropMain(moved) IN
              /\ fs' = d.f
              /\ ctl' = [ctl EXCEPT ![Main] = d.c]
              /\ run' = RunReturn(run, "Err", "limit")
    /\ UNCHANGED <<last, child, mock, mon, calc>>

\* setup_cgroup_controller: controller.set_memory_limit(limit)?
setup_memory(limit, ioOk, moved) ==
    /\ run.pc = "set_mem"
    /\ IF fs.leaf[run.id] /\ ioOk
         THEN /\ fs' = [fs EXCEPT !.memMax[run.id] = bytes_content(from_mb(limit.limit)),
                                  !.swapMax[run.id] =
                                      IF limit.swap = 0 THEN @
                                      ELSE bytes_content(from_mb(limit.swap))]
              /\ run' = [run EXCEPT !.pc = "ns_config"]
              /\ ctl' = ctl
         ELSE LET d == DropMain(moved) IN
              /\ fs' = d.f
              /\ ctl' = [ctl EXCEPT ![Main] = d.c]
              /\ run' = RunReturn(run, "Err", "limit")
    /\ UNCHANGED <<last, child, mock, mon, calc>>

\* setup_namespace_config(no_namespaces, hostname), the value it returns.
namespace_config(no_namespaces, hostname) ==
    IF no_namespaces THEN NamespaceConfig_new
    ELSE IF hostname # "none" THEN with_hostname(NamespaceConfig_minimal, hostname)
    ELSE NamespaceConfig_minimal

\* execute(), line 27: let ns_config = setup_namespace_config(..)?
setup_namespace_config ==
    /\ run.pc = "ns_config"
    /\ run' = [run EXCEPT !.config = namespace_config(run.no_namespaces, run.hostname),
                          !.pc = IF run.monitor THEN "monitor" ELSE "exec"]
    /\ UNCHANGED <<fs, ctl, last, child, mock, mon, calc>>

\* start_monitoring: a second CGroupController::new for the same id, handed to
\* the monitor task.  On failure the new value and then the runner's
\* controller are dropped.
start_monitoring(ok, moved) ==
    /\ run.pc = "monitor"
    /\ IF ok
         THEN /\ fs' = create_directory_hierarchy(fs, run.id)
              /\ ctl' = [ctl EXCEPT ![Mon] = NewCtl(run.id)]
              /\ run' = [run EXCEPT !.pc = "exec"]
         ELSE LET d1 == drop(NewCtl(run.id), fs, {})
                  d2 == drop(ctl[Main], d1.f, moved) IN
              /\ fs' = d2.f
              /\ ctl' = [ctl EXCEPT ![Mon] = d1.c, ![Main] = d2.c]
              /\ run' = RunReturn(run, "Err", "monitor_start")
    /\ UNCHANGED <<last, child, mock, mon, calc>>

\* NamespaceExecutor::execute: two pipes, then fork.  The child starts in the
\* cgroup of the runner, which no statement of the runner has changed.  It is
\* a copy of the forking thread alone: a lock of the allocator that another
\* thread of the runtime holds at that moment (heapHeld) stays locked in the
\* child, where no thread is left to release it.
Fork(ok, moved, heapHeld) ==
    /\ run.pc = "exec"
    /\ IF ok
         THEN /\ child' = [ChildNone EXCEPT !.pc = "born",
                               !.heapLock = IF heapHeld THEN "orphaned" ELSE "free"]
              /\ run' = [run EXCEPT !.pc = "parent_read"]
              /\ UNCHANGED <<fs, ctl, calc>>
         ELSE LET d == DropMain(moved) IN
              /\ fs' = d.f
              /\ ctl' = [ctl EXCEPT ![Main] = d.c]
              /\ run' = RunReturn(run, "Err", "exec")
              /\ child' = child
    /\ UNCHANGED <<last, mock, mon, calc>>

\* ---- the child (handle_child, execute_child)
\* An allocation from the heap (String::clone, Vec::push, CString::new,
\* format!): it takes the allocator's lock.
malloc(c) ==
    IF c.heapLock = "orphaned" THEN [c EXCEPT !.pc = "blocked"]
    ELSE [c EXCEPT !.allocated = TRUE]

ChildExit(c, code, wroteErr) ==
    [c EXCEPT !.pc = "zombie", !.status = Exited(code),
              !.err = IF wroteErr THEN 1 ELSE @]

\* handle_child: dup2 of the two pipe write ends onto fds 1 and 2.  A failure
\* is reported on the inherited fd 2, not on the pipe, and ends the child
\* with _exit(1).
handle_child_redirect(ok) ==
    /\ child.pc = "born"
    /\ child' = IF ok THEN [child EXCEPT !.pc = "redirected"]
                ELSE ChildExit(child, 1, FALSE)
    /\ UNCHANGED <<fs, ctl, last, run, mock, mon, calc>>

\* unshare(2): the calling process enters a new namespace of every kind in
\* flags except the pid namespace; CLONE_NEWPID only sets the namespace its
\* later children are created in.
unshare(c, flags) ==
    [c EXCEPT !.ns = @ \cup (flags \ {"CLONE_NEWPID"}),
              !.pidForChildren = IF "CLONE_NEWPID" \in flags THEN "new" ELSE @]

\* NamespaceManager::setup_uts: sethostname when a hostname is configured.
setup_uts(config, c, hostOk) ==
    IF config.hostname = "none" THEN [ok |-> TRUE, c |-> c]
    ELSE IF hostOk THEN [ok |-> TRUE, c |-> [c EXCEPT !.hostname = config.hostname]]
    ELSE [ok |-> FALSE, c |-> c]

\* NamespaceManager::create on a fresh manager: CLONE_NEWPID is taken out of
\* the flags, the rest is unshared, and setup_uts runs when config.uts.
NamespaceManager_create(config, c, unshareOk, hostOk) ==
    IF ~has_any(config) THEN [ok |-> TRUE, c |-> c]
    ELSE LET flags == to_clone_flags(config) \ {"CLONE_NEWPID"}
             u == IF flags = {} THEN [ok |-> TRUE, c |-> c]
                  ELSE IF unshareOk THEN [ok |-> TRUE, c |-> unshare(c, flags)]
                  ELSE [ok |-> FALSE, c |-> c]
         IN IF ~u.ok THEN u
            ELSE IF config.uts THEN setup_uts(config, u.c, hostOk)
            ELSE u

\* handle_child: NamespaceManager::create(); failure is reported on fd 2
\* (now the pipe) and ends the child with _exit(1).
\* NamespaceManager::create(&mut self) called by process c: a no-op returning
\* Ok when created is set; otherwise the body above, and created = true once
\* it has run to its end.
Manager_create(m, c, unshareOk, hostOk) ==
    LET flags == to_clone_flags(m.config) \ {"CLONE_NEWPID"}
        enters == ~m.created /\ has_any(m.config)
        unshares == enters /\ flags # {}
        unshared == unshares /\ unshareOk
        sets == enters /\ (flags = {} \/ unshareOk)
                  /\ m.config.uts /\ m.config.hostname # "none"
        r == IF m.created THEN [ok |-> TRUE, c |-> c]
             ELSE NamespaceManager_create(m.config, c, unshareOk, hostOk)
    IN [ ok |-> r.ok, c |-> r.c,
         m |-> [m EXCEPT !.created = @ \/ (enters /\ r.ok),
                         !.calls = @ + 1,
                         !.nUnshare = IF unshared THEN @ + 1 ELSE @,
                         !.nSethostname = IF sets THEN @ + 1 ELSE @,
                         !.lastFoundCreated = m.created,
                         !.lastRet = IF r.ok THEN "Ok" ELSE "Err",
                         !.lastUnshared = unshared,
                         !.lastSethostname = sets] ]

\* self.config.clone() copies the hostname String, and create() builds the
\* Vec of enabled_namespaces() once has_any() holds.
handle_child_namespaces(unshareOk, hostOk) ==
    /\ child.pc = "redirected"
    /\ LET c0 == IF run.config.hostname # "none" \/ has_any(run.config)
                   THEN malloc(child) ELSE child
           r == Manager_create(NamespaceManager_new(run.config), c0, unshareOk, hostOk)
           c1 == [r.c EXCEPT !.mgr = r.m] IN
       child' = IF c0.pc = "blocked" THEN c0
                ELSE IF r.ok THEN [c1 EXCEPT !.pc = "isolated"]
                ELSE ChildExit(c1, 1, TRUE)
    /\ UNCHANGED <<fs, ctl, last, run, mock, mon, calc>>

\* A process that owns a NamespaceManager calls create() on it.
MaxCreate == 3

NsCreate(unshareOk, hostOk) ==
    /\ child.pc = "manager"
    /\ child.mgr.calls < MaxCreate
    /\ LET r == Manager_create(child.mgr, child, unshareOk, hostOk) IN
       child' = [r.c EXCEPT !.mgr = r.m]
    /\ UNCHANGED <<fs, ctl, last, run, mock, mon, calc>>

exec_failure_exit1(c) ==
    [ChildExit(c, 1, TRUE) EXCEPT !.execFailed = TRUE]

\* execute_child after execvp returned: eprintln!("Failed to execute ..."),
\* then _exit(127).
exec_failure(c) ==
    [ChildExit(c, 127, TRUE) EXCEPT !.execFailed = TRUE]

\* execute_child: CString conversion of program and arguments (an interior
\* NUL ends the child with a diagnostic and _exit(1)), then execvp.
execute_child(cstrOk, execOk) ==
    /\ child.pc = "isolated"
    /\ LET c0 == malloc(child) IN
       child' = IF c0.pc = "blocked" THEN c0
                ELSE IF ~cstrOk THEN ChildExit(c0, 1, TRUE)
                ELSE IF execOk
                       THEN [c0 EXCEPT !.pc = "running", !.execd = TRUE,
                                       !.cgAtExec = fs.cg[ChildPid]]
                            \* execvp replaces the image of the same process:
                            \* its namespaces stay those of the child
                       ELSE exec_failure(c0)
    /\ UNCHANGED <<fs, ctl, last, run, mock, mon, calc>>

\* The command itself: it may write to its stdout and stderr and then exits
\* with a code of its choosing, or is ended by a signal.
CommandExits(code, out, err) ==
    /\ child.pc = "running"
    /\ child' = [child EXCEPT !.pc = "zombie", !.status = Exited(code),
                              !.out = out, !.err = err]
    /\ UNCHANGED <<fs, ctl, last, run, mock, mon, calc>>

CommandSignaled(sig, out, err) ==
    /\ child.pc = "running"
    /\ child' = [child EXCEPT !.pc = "zombie", !.status = Signaled(sig),
                              !.out = out, !.err = err]
    /\ UNCHANGED <<fs, ctl, last, run, mock, mon, calc>>

\* ---- the supervisor (handle_parent, wait_for_child)
WaitOk(code) == [tag |-> "Ok", code |-> code]
WaitErr == [tag |-> "Err", code |-> 0]

wait_for_child_raw_signal(wres) ==
    IF wres.tag = "Err" THEN WaitErr
    ELSE IF wres.status.kind = "Exited" THEN WaitOk(wres.status.val)
    ELSE IF wres.status.kind = "Signaled" THEN WaitOk(wres.status.val)
    ELSE WaitOk(1)

\* wait_for_child: the match on the result of waitpid(child, None).
wait_for_child(wres) ==
    IF wres.tag = "Err" THEN WaitErr
    ELSE IF wres.status.kind = "Exited" THEN WaitOk(wres.status.val)
    ELSE IF wres.status.kind = "Signaled" THEN WaitOk(128 + wres.status.val)
    ELSE WaitOk(1)

\* handle_parent: read_from_fd(stdout) then read_from_fd(stderr); each
\* read_to_end returns when every write end of that pipe is closed.
handle_parent_read(okOut, okErr, moved) ==
    /\ run.pc = "parent_read"
    /\ child.pc = "zombie"
    /\ IF okOut /\ okErr
         THEN /\ run' = [run EXCEPT !.pc = "parent_wait",
                                    !.stdout = child.out, !.stderr = child.err]
              /\ UNCHANGED <<fs, ctl, calc>>
         ELSE LET d == DropMain(moved) IN
              /\ fs' = d.f
              /\ ctl' = [ctl EXCEPT ![Main] = d.c]
              /\ run' = RunReturn(run, "Err", "exec")
    /\ UNCHANGED <<last, child, mock, mon, calc>>

\* What waitpid(child, None) may fail with: interrupted by a signal, or no
\* child left to wait for (SIGCHLD ignored by the runner's parent).
WaitErrnos == {"none", "EINTR", "ECHILD"}

\* handle_parent: wait_for_child(child)?, then the ExecutionResult.
handle_parent_wait(werrno, moved) ==
    /\ run.pc = "parent_wait"
    /\ child.pc = "zombie"
    /\ LET wres == [tag |-> IF werrno # "none" THEN "Err" ELSE "Ok",
                    status |-> child.status, errno |-> werrno]
           r == wait_for_child(wres) IN
       IF r.tag = "Ok"
         THEN /\ run' = [run EXCEPT
                           !.pc = IF run.monitor THEN "stop_monitor" ELSE "cleanup",
                           !.werrno = werrno,
                           !.result = [tag |-> "Ok", exit_code |-> r.code,
                                       stdout |-> run.stdout, stderr |-> run.stderr]]
              /\ child' = [child EXCEPT !.pc = "reaped"]
              /\ UNCHANGED <<fs, ctl, calc>>
         ELSE LET d == DropMain(moved) IN
              /\ fs' = d.f
              /\ ctl' = [ctl EXCEPT ![Main] = d.c]
              /\ run' = RunReturn([run EXCEPT !.werrno = werrno], "Err", "exec")
              /\ child' = child
    /\ UNCHANGED <<last, mock, mon, calc>>

\* stop_monitoring: monitor.stop(), handle.await?.  The monitor and its task
\* end here, and with them the monitoring controller, still active.
stop_monitoring(joinOk, moved) ==
    /\ run.pc = "stop_monitor"
    /\ LET d1 == drop(ctl[Mon], fs, moved) IN
       IF joinOk
         THEN /\ fs' = d1.f
              /\ ctl' = [ctl EXCEPT ![Mon] = d1.c]
              /\ run' = [run EXCEPT !.pc = "cleanup"]
         ELSE LET d2 == drop(ctl[Main], d1.f, moved) IN
              /\ fs' = d2.f
              /\ ctl' = [ctl EXCEPT ![Mon] = d1.c, ![Main] = d2.c]
              /\ run' = RunReturn(run, "Err", "join")
    /\ UNCHANGED <<last, child, mock, mon, calc>>

\* execute(), lines 51-59: the trait-level cleanup on the immutable
\* controller, then Ok(()) and the controller goes out of scope.
cleanup_and_return(moved) ==
    /\ run.pc = "cleanup"
    /\ LET t == ResourceBackend_cleanup(ctl[Main], fs)
           d == drop(t.c, t.f, moved) IN
       /\ fs' = d.f
       /\ ctl' = [ctl EXCEPT ![Main] = d.c]
       /\ run' = RunReturn(run, "Ok", "success")
    /\ UNCHANGED <<last, child, mock, mon, calc>>

\* SIGINT reaches the runner while it supervises the running command.  No
\* statement of the runner or of the supervisor installs a handler, so the
\* default disposition ends the runner: nothing is sent to the child, and no
\* further statement of execute() runs.
Sigint ==
    /\ run.pc \in {"parent_read", "parent_wait"}
    /\ child.pc = "running"
    /\ run' = [run EXCEPT !.pc = "killed", !.sigint = TRUE]
    /\ UNCHANGED <<fs, ctl, last, child, mock, mon, calc>>

\* A `vortex stats --id <id>` started by someone else while the run goes on.
ConcurrentStats(ok, moved) ==
    /\ run.pc \notin {"start", "returned"}
    /\ StatsCmd(run.id, ok, moved)

InitRun ==
    /\ fs = FsInit
    /\ ctl = [h \in Handles |-> NoCtl]
    /\ last = Last("init", 0, "Ok", FALSE, FALSE)
    /\ run \in {[RunInit("a", em) EXCEPT !.no_namespaces = n, !.hostname = h] :
                   em \in BOOLEAN, n \in BOOLEAN, h \in Hostnames}
    /\ child = ChildNone
    /\ mock = MockInit
    /\ mon = MonNone
    /\ calc = CalcNone

RunMovable == SUBSET procs(fs, run.id)

DoValidate == \E ok \in BOOLEAN : validate_environment(ok)
DoSetupNew == \E ok \in MkdirOutcomes(run.id) : setup_new(ok)
DoSetupCpu == \E c \in CpuInputs, ioOk \in BOOLEAN, moved \in RunMovable :
                 setup_cpu(c, ioOk, moved)
DoSetupMemory == \E m \in MemInputs, ioOk \in BOOLEAN, moved \in RunMovable :
                    setup_memory(m, ioOk, moved)
DoStartMonitoring == \E ok \in MkdirOutcomes(run.id), moved \in RunMovable :
                        start_monitoring(ok, moved)
\* With --monitor the monitor task runs, prints and allocates on another
\* worker thread of the runtime while the runner forks.
DoFork == \E ok \in BOOLEAN, moved \in RunMovable,
             heapHeld \in (IF run.monitor THEN BOOLEAN ELSE {FALSE}) :
             Fork(ok, moved, heapHeld)
DoRedirect == \E ok \in BOOLEAN : handle_child_redirect(ok)
DoNamespaces == \E unshareOk \in BOOLEAN, hostOk \in BOOLEAN :
                   handle_child_namespaces(unshareOk, hostOk)
DoExec == \E cstrOk \in BOOLEAN, execOk \in BOOLEAN : execute_child(cstrOk, execOk)
DoCommandExits == \E code \in ExitCodes, out \in {0, 1}, err \in {0, 1} :
                     CommandExits(code, out, err)
DoCommandSignaled == \E sig \in Signals, out \in {0, 1}, err \in {0, 1} :
                        CommandSignaled(sig, out, err)
DoParentRead == \E okOut \in BOOLEAN, okErr \in BOOLEAN, moved \in RunMovable :
                   handle_parent_read(okOut, okErr, moved)
DoParentWait == \E werrno \in WaitErrnos, moved \in RunMovable :
                   handle_parent_wait(werrno, moved)
DoStopMonitoring == \E joinOk \in BOOLEAN, moved \in RunMovable :
                       stop_monitoring(joinOk, moved)
DoCleanupReturn == \E moved \in RunMovable : cleanup_and_return(moved)
DoConcurrentStats == \E ok \in MkdirOutcomes(run.id), moved \in RunMovable :
                        ConcurrentStats(ok, moved)

NextRun ==
    \/ DoValidate
    \/ DoSetupNew
    \/ DoSetupCpu
    \/ DoSetupMemory
    \/ setup_namespace_config
    \/ DoStartMonitoring
    \/ DoFork
    \/ DoRedirect
    \/ DoNamespaces
    \/ DoExec
    \/ DoCommandExits
    \/ DoCommandSignaled
    \/ DoParentRead
    \/ DoParentWait
    \/ DoStopMonitoring
    \/ DoCleanupReturn
    \/ Sigint
    \/ DoConcurrentStats

SpecRun == InitRun /\ [][NextRun]_vars

\* ------------------------------------------------------------ SpecWait
\* The supervisor at wait_for_child, for every wait status waitpid can hand
\* back: the runner has created the controller and written both limits, the
\* child has ended and its pipes have been read.

OtherKinds == {"Stopped", "PtraceEvent", "PtraceSyscall", "Continued", "StillAlive"}

WaitStatuses ==
    {Exited(code) : code \in 0..255}
      \cup {Signaled(sig) : sig \in 1..64}
      \cup {[kind |-> k, val |-> 0] : k \in OtherKinds}

FsConfigured(id) ==
    [create_directory_hierarchy(FsInit, id) EXCEPT
        !.cpuMax[id] = cpu_max_content(1500000),
        !.memMax[id] = bytes_content(from_mb(512))]

InitWait ==
    /\ fs = FsConfigured("a")
    /\ ctl = [h \in Handles |-> IF h = Main THEN NewCtl("a") ELSE NoCtl]
    /\ last = Last("init", 0, "Ok", FALSE, FALSE)
    /\ run = [RunInit("a", FALSE) EXCEPT !.pc = "parent_wait", !.created = TRUE]
    /\ \E ws \in WaitStatuses :
          child = [ChildNone EXCEPT !.pc = "zombie", !.status = ws]
    /\ mock = MockInit
    /\ mon = MonNone
    /\ calc = CalcNone

NextWait ==
    \/ DoParentWait
    \/ DoCleanupReturn

SpecWait == InitWait /\ [][NextWait]_vars

\* ------------------------------------------------------------ SpecMock
\* One MockBackend shared by concurrent tasks that call set_cpu_limit,
\* set_memory_limit, add_process, stats and cleanup.
InitMock ==
    /\ fs = FsInit
    /\ ctl = [h \in Handles |-> NoCtl]
    /\ last = Last("init", 0, "Ok", FALSE, FALSE)
    /\ run = RunIdle
    /\ child = ChildNone
    /\ mock = MockInit
    /\ mon = MonNone
    /\ calc = CalcNone

MockCpuInputs == {1000000, 1500000}             \* cores, in millionths
MockMemInputs == {[limit |-> 512, swap |-> 0], [limit |-> 256, swap |-> 0]}

DoMockSetCpu == \E c \in MockCpuInputs : MockSetCpu(c)
DoMockSetMem == \E m \in MockMemInputs : MockSetMem(m)
DoMockAddProcess == \E p \in Pids : MockAddProcess(p)

NextMock ==
    \/ DoMockSetCpu
    \/ DoMockSetMem
    \/ DoMockAddProcess
    \/ MockStats
    \/ MockCleanup

SpecMock == InitMock /\ [][NextMock]_vars

\* ---- tasks sharing one MockBackend through Arc clones
TaskCalls ==
    {<<"set_cpu_limit", [NoArg EXCEPT !.cpu = c]>> : c \in MockCpuInputs}
      \cup {<<"set_memory_limit", [NoArg EXCEPT !.mem = [limit |-> 512, swap |-> 0]]>>}
      \cup {<<"add_process", [NoArg EXCEPT !.pid = p]>> : p \in Pids}
      \cup {<<"stats", NoArg>>, <<"cleanup", NoArg>>}

DoTaskCall == \E t \in Tasks, c \in TaskCalls : TaskCall(t, c[1], c[2])
DoTaskLock == \E t \in Tasks : TaskLock(t)
DoTaskReturn == \E t \in Tasks : TaskReturn(t)

NextTasks == DoTaskCall \/ DoTaskLock \/ DoTaskReturn

SpecTasks == InitMock /\ [][NextTasks]_vars

\* ------------------------------------------------------------- SpecMon
\* One ResourceMonitor over a MockBackend, the consumer of its events, and
\* tests that reset or overwrite the mock's statistics meanwhile.
InitMon ==
    /\ fs = FsInit
    /\ ctl = [h \in Handles |-> NoCtl]
    /\ last = Last("init", 0, "Ok", FALSE, FALSE)
    /\ run = RunIdle
    /\ child = ChildNone
    /\ mock = MockInit
    /\ mon \in {MonInit("a", hasTx) : hasTx \in BOOLEAN}
    /\ calc = CalcNone

DoSetMockStats == \E st \in MockStatsInputs : SetMockStats(st)

DoTaskTickErr == \E e \in StatsErrors : TaskTickErr(e)

TaskStep == TaskEmit \/ TaskTick \/ DoTaskTickErr

NextMon ==
    \/ MonStart
    \/ MonStop
    \/ TaskEmit
    \/ TaskTick
    \/ DoTaskTickErr
    \/ ConsumerRecv
    \/ ConsumerDrop
    \/ MockCleanup
    \/ DoSetMockStats

SpecMon == InitMon /\ [][NextMon]_vars

\* The scheduler runs the task whenever it can proceed: the ticker fires, the
\* mutexes are released, and a send completes once the channel has room.
\* Nothing obliges the consumer to receive.
SpecMonFair == SpecMon /\ WF_vars(TaskStep)

\* ---------------------------------------------------------- SpecLimits
\* Two controllers, each over its own freshly created leaf, on which
\* set_cpu_limit and set_memory_limit are called with a range of limits.
LimitCpuInputs == {500000, 1000000, 1500000, 290000}    \* cores, in millionths
LimitMemInputs ==
    { [limit |-> 512, swap |-> 0], [limit |-> 256, swap |-> 0],
      [limit |-> 512, swap |-> 256] }           \* MB; swap 0 stands for None

InitLimits ==
    /\ fs = create_directory_hierarchy(create_directory_hierarchy(FsInit, "a"), "b")
    /\ ctl = [h \in Handles |-> IF h = Main THEN NewCtl("a")
                                ELSE IF h = Mon THEN NewCtl("b") ELSE NoCtl]
    /\ last = Last("init", 0, "Ok", FALSE, FALSE)
    /\ run = RunIdle
    /\ child = ChildNone
    /\ mock = MockInit
    /\ mon = MonNone
    /\ calc = CalcNone

DoLimitCpu == \E h \in Handles, c \in LimitCpuInputs, ioOk \in BOOLEAN :
                 set_cpu_limit(h, c, ioOk)
DoLimitMem == \E h \in Handles, m \in LimitMemInputs, ioOk \in BOOLEAN, swapOk \in BOOLEAN :
                 set_memory_limit(h, m, ioOk, swapOk)

NextLimits ==
    \/ DoLimitCpu
    \/ DoLimitMem

SpecLimits == InitLimits /\ [][NextLimits]_vars

\* ---- to_quota on its own: every input, then the call
MaxHundredths == 256     \* largest cores value, in hundredths of a core
MaxMicro      == 49      \* largest of the small cores values, in millionths

QuotaInputs == {h * 10000 : h \in 0..MaxHundredths} \cup 0..MaxMicro

InitQuota ==
    /\ fs = FsInit
    /\ ctl = [h \in Handles |-> NoCtl]
    /\ last = Last("init", 0, "Ok", FALSE, FALSE)
    /\ run = RunIdle
    /\ child = ChildNone
    /\ mock = MockInit
    /\ mon = MonNone
    /\ calc \in {Call("to_quota", c) : c \in QuotaInputs}

NextQuota == ToQuota

SpecQuota == InitQuota /\ [][NextQuota]_vars

\* ---- ContainerId on its own: every input string and constructor
RunLens == {1, 2, 32, 33, 63, 64, 65}

IdInputs ==
    {<<>>}
    \cup {<<[ch |-> c, n |-> k]>> : c \in Chars, k \in RunLens}
    \cup {t \in {<<[ch |-> c, n |-> k], [ch |-> d, n |-> 1]>> :
                      c \in Chars, k \in RunLens, d \in Chars} :
              t[1].ch # t[2].ch}

InitId ==
    /\ fs = FsInit
    /\ ctl = [h \in Handles |-> NoCtl]
    /\ last = Last("init", 0, "Ok", FALSE, FALSE)
    /\ run = RunIdle
    /\ child = ChildNone
    /\ mock = MockInit
    /\ mon = MonNone
    /\ calc \in {Call(f, s) : f \in Constructors, s \in IdInputs}

NextId == MakeContainerId

SpecId == InitId /\ [][NextId]_vars

\* ---- a NamespaceManager on its own, create() called again and again
NsConfigs ==
    { with_hostname(with_mount(with_pid(base, p), mt), h) :
        base \in {NamespaceConfig_minimal, NamespaceConfig_default},
        p \in BOOLEAN, mt \in BOOLEAN, h \in Hostnames }

InitNs ==
    /\ fs = FsInit
    /\ ctl = [h \in Handles |-> NoCtl]
    /\ last = Last("init", 0, "Ok", FALSE, FALSE)
    /\ run = RunIdle
    /\ child \in {[ChildNone EXCEPT !.pc = "manager", !.mgr = NamespaceManager_new(cfg)] :
                     cfg \in NsConfigs}
    /\ mock = MockInit
    /\ mon = MonNone
    /\ calc = CalcNone

NextNs == \E unshareOk \in BOOLEAN, hostOk \in BOOLEAN : NsCreate(unshareOk, hostOk)

SpecNs == InitNs /\ [][NextNs]_vars

\* ---- CGroupController::create and stats over the files of the hierarchy
\* controller.rs: const REQUIRED_CONTROLLERS
REQUIRED_CONTROLLERS == <<"cpu", "memory", "io">>

\* str::contains on the text of cgroup.controllers or cgroup.subtree_control,
\* the text being given as the set of controller names it lists: a name is
\* found when it is listed or is a substring of a listed name ("cpu" is one
\* of "cpuset").
contains(listed, c) == c \in listed \/ (c = "cpu" /\ "cpuset" \in listed)

NoWrites == [writes |-> <<>>, enabled |-> {}]

\* A loop that gives up at the first write the kernel rejects.
RECURSIVE write_each_until_error(_, _, _)
write_each_until_error(todo, accepts, r) ==
    IF todo = <<>> \/ Head(todo) \notin accepts THEN
        IF todo = <<>> THEN r
        ELSE [r EXCEPT !.writes = Append(@, "+" \o Head(todo))]
    ELSE write_each_until_error(Tail(todo), accepts,
             [writes |-> Append(r.writes, "+" \o Head(todo)),
              enabled |-> r.enabled \cup {Head(todo)}])

\* enable_controllers_at, lines 229-251: one fs::write of "+<controller>" per
\* controller of to_enable; a rejected write is logged and the loop goes on.
\* accepts are the controllers whose write the kernel accepts.
RECURSIVE write_each(_, _, _)
write_each(todo, accepts, r) ==
    IF todo = <<>> THEN r
    ELSE write_each(Tail(todo), accepts,
             [writes |-> Append(r.writes, "+" \o Head(todo)),
              enabled |-> IF Head(todo) \in accepts
                            THEN r.enabled \cup {Head(todo)} ELSE r.enabled])

\* enable_controllers_at(path).  lv describes the directory: whether
\* cgroup.subtree_control exists, whether cgroup.controllers can be read and
\* what it lists, the same for cgroup.subtree_control, and accepts.  The
\* result is the writes made, in order, and the controllers they enabled.
enable_controllers_at(lv) ==
    IF ~lv.control THEN NoWrites
    ELSE IF ~lv.availOk THEN NoWrites
    ELSE LET enabled == IF lv.enabledOk THEN lv.enabled ELSE {}
             missing(c) == contains(lv.avail, c) /\ ~contains(enabled, c)
             to_enable == SelectSeq(REQUIRED_CONTROLLERS, missing)
         IN IF to_enable = <<>> THEN NoWrites
            ELSE write_each(to_enable, lv.accepts, NoWrites)

\* enable_controllers_in_hierarchy: the root, then the vortex directory;
\* always Ok.
enable_controllers_in_hierarchy(io) ==
    [ret |-> "Ok", root |-> enable_controllers_at(io.root),
     vortex |-> enable_controllers_at(io.vortex)]

\* create_directory_hierarchy as a result: create_dir_all of the vortex
\* directory when it does not exist, then create_dir_all of the leaf.
create_directory_hierarchy_result(io) ==
    IF ~io.vortexExists /\ ~io.mkVortex THEN "Err"
    ELSE IF ~io.mkLeaf THEN "Err" ELSE "Ok"

\* CGroupController::create, and with it the result of CGroupController::new.
CGroupController_create(io) ==
    IF create_directory_hierarchy_result(io) = "Err"
      THEN [ret |-> "Err", root |-> NoWrites, vortex |-> NoWrites]
      ELSE enable_controllers_in_hierarchy(io)

\* let controller = CGroupController::new(id).await;
CreateCall ==
    /\ calc.fn = "CGroupController::new" /\ ~calc.done
    /\ calc' = [calc EXCEPT !.done = TRUE, !.out = CGroupController_create(calc.arg)]
    /\ UNCHANGED <<fs, ctl, last, run, child, mock, mon>>

\* ---- stats() of the controller (controller.rs 444-567)
\* The text of a value: absent (the file or the key is missing), garbage (it
\* does not parse as u64) or a number.
Absent  == [st |-> "absent", v |-> 0]
Garbage == [st |-> "garbage", v |-> 0]
Num(n)  == [st |-> "num", v |-> n]

\* parts[1].parse().unwrap_or(0) on a key that is present
parse_or_0(val) == IF val.st = "num" THEN val.v ELSE 0

StatsErr(what, file) == [ret |-> "Err", why |-> what, file |-> file, v |-> 0]
StatsOk(v) == [ret |-> "Ok", why |-> "none", file |-> "none", v |-> v]

\* read_cpu_stats: cpu.stat must be readable; usage_usec and throttled_usec
\* start at 0 and are set by the lines that carry them.
read_cpu_stats(files) ==
    IF ~files.cpu_stat THEN StatsErr("read", "cpu.stat")
    ELSE StatsOk([usage |-> parse_or_0(files.usage_usec),
                  throttled |-> parse_or_0(files.throttled_usec)])

\* read_single_value: the file must be readable and must parse.
read_single_value(files, filename) ==
    LET val == files[filename] IN
    IF val.st = "absent" THEN StatsErr("read", filename)
    ELSE IF val.st = "garbage" THEN StatsErr("parse", filename)
    ELSE StatsOk(val.v)

unwrap_or(r, d) == IF r.ret = "Ok" THEN r.v ELSE d

\* read_memory_stats: `?` on memory.current and memory.peak, unwrap_or(0) on
\* the two swap files.
read_memory_stats(files) ==
    LET current == read_single_value(files, "memory.current")
        peak == read_single_value(files, "memory.peak")
    IN IF current.ret = "Err" THEN current
       ELSE IF peak.ret = "Err" THEN peak
       ELSE StatsOk([current |-> current.v, peak |-> peak.v,
                     swap_current |-> unwrap_or(read_single_value(files, "memory.swap.current"), 0),
                     swap_peak |-> unwrap_or(read_single_value(files, "memory.swap.peak"), 0)])

\* read_io_stats: an unreadable io.stat reads as empty; rbytes= and wbytes=
\* of the device line are added with unwrap_or(0).
read_io_stats(files) ==
    IF ~files.io_stat THEN StatsOk([read |-> 0, write |-> 0])
    ELSE StatsOk([read |-> parse_or_0(files.rbytes), write |-> parse_or_0(files.wbytes)])

\* <ResourceBackend for CGroupController>::stats
CGroupController_stats(files) ==
    LET cpu == read_cpu_stats(files)
        mem == read_memory_stats(files)
        io == read_io_stats(files)
    IN IF cpu.ret = "Err" THEN cpu
       ELSE IF mem.ret = "Err" THEN mem
       ELSE StatsOk([cpu_usage |-> cpu.v.usage, cpu_throttled |-> cpu.v.throttled,
                     memory_current |-> mem.v.current, memory_peak |-> mem.v.peak,
                     swap_current |-> mem.v.swap_current, swap_peak |-> mem.v.swap_peak,
                     io_read_bytes |-> io.v.read, io_write_bytes |-> io.v.write])

\* let stats = controller.stats().await;
ReadStats ==
    /\ calc.fn = "stats" /\ ~calc.done
    /\ calc' = [calc EXCEPT !.done = TRUE, !.out = CGroupController_stats(calc.arg)]
    /\ UNCHANGED <<fs, ctl, last, run, child, mock, mon>>

\* ---- create() and stats() over every state of the files they touch
Levels ==
    { [control |-> c, availOk |-> a, avail |-> av, enabledOk |-> e,
       enabled |-> en, accepts |-> ac] :
        c \in BOOLEAN, a \in BOOLEAN,
        av \in {{"cpu", "memory", "io"}, {"cpuset", "memory"}},
        e \in BOOLEAN, en \in {{}, {"memory"}},
        ac \in {{}, {"memory", "io"}} }

RootLevels == {lv \in Levels : lv.enabledOk /\ lv.enabled = {} /\ lv.accepts = {}}

CreateInputs ==
    { [vortexExists |-> x, mkVortex |-> mv, mkLeaf |-> ml, root |-> r, vortex |-> v] :
        x \in BOOLEAN, mv \in BOOLEAN, ml \in BOOLEAN,
        r \in RootLevels, v \in Levels }

Values == {Absent, Garbage, Num(7)}

StatsInputs ==
    { [cpu_stat |-> c, usage_usec |-> u, throttled_usec |-> t, io_stat |-> i,
       rbytes |-> Num(7), wbytes |-> w] @@
      ("memory.current" :> mc @@ "memory.peak" :> mp @@
       "memory.swap.current" :> sc @@ "memory.swap.peak" :> Absent) :
        c \in BOOLEAN, u \in Values, t \in {Garbage, Num(7)}, i \in BOOLEAN,
        w \in {Garbage, Num(7)},
        mc \in Values, mp \in Values, sc \in Values }

InitIo ==
    /\ fs = FsInit
    /\ ctl = [h \in Handles |-> NoCtl]
    /\ last = Last("init", 0, "Ok", FALSE, FALSE)
    /\ run = RunIdle
    /\ child = ChildNone
    /\ mock = MockInit
    /\ mon = MonNone
    /\ calc \in {Call("CGroupController::new", io) : io \in CreateInputs}
                  \cup {Call("stats", files) : files \in StatsInputs}

NextIo == CreateCall \/ ReadStats

SpecIo == InitIo /\ [][NextIo]_vars

\* ---- execute() at the level of pipes and descriptors (executor.rs 47-177)
\* libc::close(fd) by the caller, or the drop of the File that owns fd.
close(ex, n) == [ex EXCEPT !.fds[n].closes = @ + 1]

ExecReturn(ex, ret) == [ex EXCEPT !.pc = "returned", !.ret = ret]

\* let stdout_pipe = self.create_pipe()?;  let stderr_pipe = self.create_pipe()?;
create_pipe(ok) ==
    /\ run.ex.pc \in {"pipe1", "pipe2"}
    /\ LET ex == run.ex
           made == IF ex.pc = "pipe1" THEN {"stdout_pipe[0]", "stdout_pipe[1]"}
                   ELSE {"stderr_pipe[0]", "stderr_pipe[1]"}
       IN run' = [run EXCEPT !.ex =
                    IF ~ok THEN ExecReturn(ex, "Err")
                    ELSE [ex EXCEPT !.pc = IF ex.pc = "pipe1" THEN "pipe2" ELSE "fork",
                                    !.fds = [n \in FdNames |->
                                               IF n \in made THEN [made |-> TRUE, closes |-> 0]
                                               ELSE ex.fds[n]]]]
    /\ UNCHANGED <<fs, ctl, last, child, mock, mon, calc>>

\* match unsafe { fork() }: the parent goes on in handle_parent, the child
\* will write out and err chunks to its stdout and stderr; Err(e) returns.
exec_fork(ok, out, err) ==
    /\ run.ex.pc = "fork"
    /\ run' = [run EXCEPT !.ex =
                 IF ~ok THEN ExecReturn(@, "Err")
                 ELSE [@ EXCEPT !.pc = "close_write", !.cpc = "running",
                                !.rem = [out |-> out, err |-> err]]]
    /\ UNCHANGED <<fs, ctl, last, child, mock, mon, calc>>

\* handle_parent: close(stdout_pipe[1]); close(stderr_pipe[1]);
parent_close_write_ends ==
    /\ run.ex.pc = "close_write"
    /\ run' = [run EXCEPT !.ex =
                 [close(close(@, "stdout_pipe[1]"), "stderr_pipe[1]")
                    EXCEPT !.pc = "read_out"]]
    /\ UNCHANGED <<fs, ctl, last, child, mock, mon, calc>>

\* read_from_fd(fd): File::from_raw_fd(fd), then read_to_end.  One step is
\* one read(2) that returns: the chunks in the pipe, or end of file once the
\* pipe is empty and the child has exited, or an error.  The File is dropped
\* when read_from_fd returns, which closes fd; an Err is passed on by `?`.
read_from_fd(ioOk) ==
    /\ run.ex.pc \in {"read_out", "read_err"}
    /\ LET ex == run.ex
           which == IF ex.pc = "read_out" THEN "out" ELSE "err"
       IN /\ ex.buf[which] > 0 \/ ex.cpc = "exited"
          /\ run' = [run EXCEPT !.ex =
                IF ~ioOk THEN ExecReturn(close(ex, ReadEnd(which)), "Err")
                ELSE IF ex.buf[which] > 0
                  THEN [ex EXCEPT !.got[which] = @ + ex.buf[which],
                                  !.buf[which] = 0]
                  ELSE [close(ex, ReadEnd(which)) EXCEPT
                          !.pc = IF which = "out" THEN "read_err" ELSE "close_read"]]
    /\ UNCHANGED <<fs, ctl, last, child, mock, mon, calc>>

\* handle_parent: close(stdout_pipe[0]); close(stderr_pipe[0]);
parent_close_read_ends ==
    /\ run.ex.pc = "close_read"
    /\ run' = [run EXCEPT !.ex =
                 [close(close(@, "stdout_pipe[0]"), "stderr_pipe[0]")
                    EXCEPT !.pc = "wait"]]
    /\ UNCHANGED <<fs, ctl, last, child, mock, mon, calc>>

\* let exit_code = self.wait_for_child(child)?;  Ok(ExecutionResult {..})
parent_wait ==
    /\ run.ex.pc = "wait"
    /\ run.ex.cpc = "exited"
    /\ run' = [run EXCEPT !.ex = ExecReturn(@, "Ok")]
    /\ UNCHANGED <<fs, ctl, last, child, mock, mon, calc>>

\* The command calls write(2) on its stdout or stderr (the write ends the
\* child got by dup2) ...
child_write_begin(which) ==
    /\ run.ex.cpc = "running"
    /\ run.ex.cwr = "none"
    /\ run.ex.rem[which] > 0
    /\ run' = [run EXCEPT !.ex.cwr = which]
    /\ UNCHANGED <<fs, ctl, last, child, mock, mon, calc>>

\* ... and the write returns once the pipe has room for the chunk.
child_write_end ==
    /\ run.ex.cwr # "none"
    /\ run.ex.buf[run.ex.cwr] < PipeCap
    /\ run' = [run EXCEPT !.ex.buf[run.ex.cwr] = @ + 1,
                          !.ex.rem[run.ex.cwr] = @ - 1,
                          !.ex.cwr = "none"]
    /\ UNCHANGED <<fs, ctl, last, child, mock, mon, calc>>

\* The command exits when it has written all its output; the kernel closes
\* its write ends.
child_exit ==
    /\ run.ex.cpc = "running"
    /\ run.ex.cwr = "none"
    /\ run.ex.rem = [out |-> 0, err |-> 0]
    /\ run' = [run EXCEPT !.ex.cpc = "exited"]
    /\ UNCHANGED <<fs, ctl, last, child, mock, mon, calc>>

InitExec ==
    /\ fs = FsInit
    /\ ctl = [h \in Handles |-> NoCtl]
    /\ last = Last("init", 0, "Ok", FALSE, FALSE)
    /\ run = [RunIdle EXCEPT !.ex.pc = "pipe1"]
    /\ child = ChildNone
    /\ mock = MockInit
    /\ mon = MonNone
    /\ calc = CalcNone

DoCreatePipe == \E ok \in BOOLEAN : create_pipe(ok)
DoExecFork == \E ok \in BOOLEAN, out \in 0..MaxWrite, err \in 0..MaxWrite :
                  exec_fork(ok, out, err)
DoReadFromFd == \E ioOk \in BOOLEAN : read_from_fd(ioOk)
DoChildWriteBegin == \E which \in {"out", "err"} : child_write_begin(which)

NextExec ==
    \/ DoCreatePipe
    \/ DoExecFork
    \/ parent_close_write_ends
    \/ DoReadFromFd
    \/ parent_close_read_ends
    \/ parent_wait
    \/ DoChildWriteBegin
    \/ child_write_end
    \/ child_exit

SpecExec == InitExec /\ [][NextExec]_vars

\* ================================================================ claims
BackendOps == {"set_cpu_limit", "set_memory_limit", "add_process", "stats"}
CleanupOps == {"cleanup", "trait_cleanup"}

\* C1: once cleanup() has completed on a controller (it is live and not
\* active), every other backend operation called on it returns the
\* "not active" error and reads or writes no cgroup file.
C1_NotActiveAfterCleanup ==
    (last.op \in BackendOps /\ ~last.wasActive)
        => (last.ret = "NotActive" /\ ~last.touched)

\* C2: when cleanup() called through the ResourceBackend interface returns
\* Ok, the controller's processes have been reparented, rmdir of the leaf
\* has been attempted and the controller is no longer active.
C2_TraitCleanupReleases ==
    (last.op = "trait_cleanup" /\ last.ret = "Ok")
        => /\ ~ctl[last.h].active
           /\ ctl[last.h].nReparent >= 1
           /\ ctl[last.h].nRmdir >= 1

\* C3: cleanup is idempotent.  On a controller that is already cleaned up,
\* a further cleanup() returns Ok and performs no filesystem action (no
\* reparenting, no rmdir, the tree is unchanged), and the active flag of a
\* controller never goes from false back to true.
C3_CleanupIdempotent ==
    [][\A h \in Handles :
         (ctl[h].st = "live" /\ ~ctl[h].active) =>
            /\ ~ctl'[h].active
            /\ (last'.h = h /\ last'.op \in CleanupOps) =>
                   /\ last'.ret = "Ok"
                   /\ ~last'.touched
                   /\ fs' = fs
                   /\ ctl'[h].nReparent = ctl[h].nReparent
                   /\ ctl'[h].nRmdir = ctl[h].nRmdir]_vars

\* C3 witness: a second cleanup() has been called on a cleaned-up controller.
C3_Witness ==
    /\ last.op = "cleanup" /\ ~last.wasActive /\ last.ret = "Ok"
    /\ ctl[last.h].st = "live" /\ ctl[last.h].nRmdir = 1

\* C4: a controller owns its leaf exclusively.  With two active controllers
\* over the same container id, the cleanup or drop of one neither removes
\* the leaf directory nor reparents its processes.
C4_ExclusiveLeaf ==
    [][\A h, g \in Handles :
         ( /\ h # g /\ Live(h) /\ Live(g)
           /\ ctl[h].active /\ ctl[g].active /\ ctl[h].id = ctl[g].id
           /\ last'.h = h /\ last'.op \in {"cleanup", "drop"} )
         => /\ fs'.leaf[ctl[g].id] = fs.leaf[ctl[g].id]
            /\ procs(fs', ctl[g].id) = procs(fs, ctl[g].id)]_vars

\* C5: the read-only commands `stats --id X` and `list` leave every existing
\* container unchanged: each leaf that existed before still exists and has
\* the same cgroup.procs membership.
C5_ReadOnlyCommands ==
    [][last'.op \in {"stats_cmd", "list_cmd"} =>
         \A i \in Ids : fs.leaf[i] =>
             (fs'.leaf[i] /\ procs(fs', i) = procs(fs, i))]_vars

\* C6: in every run the process that executes the command is in the
\* container's leaf cgroup (its pid, or its parent's pid before the fork, was
\* written to the leaf's cgroup.procs) at the moment the command is exec'd.
C6_AttachedBeforeExec ==
    child.execd => child.cgAtExec = run.id

\* C7: on every exit path of run taken after the controller was created,
\* reparenting and removal of the leaf directory have been attempted by the
\* time the runner has returned.
C7_TeardownOnEveryExit ==
    (run.pc = "returned" /\ run.created) =>
        /\ ctl[Main].st = "dropped"
        /\ ctl[Main].nReparent >= 1
        /\ ctl[Main].nRmdir >= 1

C7_Witness ==
    /\ run.pc = "returned"
    /\ run.created
    /\ run.why = "join"
    /\ ctl[Main].nRmdir = 1

\* C8: the runner's process exit status is the command's exit status: N when
\* the command exited with code N, 128+S when signal S killed it.
C8_ExitStatusSurfaced ==
    (run.pc = "returned" /\ run.ret = "Ok" /\ child.execd) =>
        /\ child.status.kind = "Exited" => run.exit = child.status.val
        /\ child.status.kind = "Signaled" => run.exit = 128 + child.status.val

\* C9: the supervisor encodes the wait status as exit_code: exited with N
\* gives N, killed by signal S gives 128+S, any other wait status gives 1.
C9_ExitCodeEncoding ==
    run.result.tag = "Ok" =>
        run.result.exit_code =
            CASE child.status.kind = "Exited" -> child.status.val
              [] child.status.kind = "Signaled" -> 128 + child.status.val
              [] OTHER -> 1

C9_Witness ==
    /\ run.result.tag = "Ok"
    /\ child.status = Signaled(9)
    /\ run.result.exit_code = 137

\* C10: when execvp fails in the child, the child has written a diagnostic to
\* fd 2 (the stderr pipe) and exited with 127, and the result execute()
\* returns has exit_code 127 and a non-empty stderr.
C10_ExecFailure127 ==
    child.execFailed =>
        /\ child.status = Exited(127)
        /\ child.err > 0
        /\ run.result.tag = "Ok" =>
              (run.result.exit_code = 127 /\ run.result.stderr > 0)

C10_Witness ==
    /\ child.execFailed
    /\ run.result.tag = "Ok"
    /\ run.result.exit_code = 127

\* C11: when the pid flag is set in the NamespaceConfig, the command runs in
\* a new PID namespace: CLONE_NEWPID is put into effect by a fork under the
\* pending namespace before the command is exec'd.
C11_PidNamespaceInEffect ==
    (child.execd /\ run.config.pid) => child.pidns = "new"

\* C12: with --hostname h and namespaces not disabled, the child has unshared
\* a UTS namespace and set its hostname to h before the command is exec'd.
C12_HostnameSet ==
    (child.execd /\ run.hostname # "none" /\ ~run.no_namespaces) =>
        /\ "CLONE_NEWUTS" \in child.ns
        /\ child.hostname = run.hostname

\* C13: with --no-namespaces the configuration has no namespace enabled and
\* the child has unshared nothing when the command is exec'd.
C13_NoNamespaces ==
    (child.execd /\ run.no_namespaces) =>
        /\ ~has_any(run.config)
        /\ child.ns = {}
        /\ child.pidForChildren = "host"

\* C14: when the runner receives SIGINT while the command is running, SIGTERM
\* is forwarded to the child and the runner stays alive to reap the child and
\* clean up the cgroup.
C14_SigintForwarded ==
    run.sigint =>
        /\ child.sigterm
        /\ run.pc # "killed"

\* C20: after a successful set_cpu_limit(c) on an active controller the
\* leaf's cpu.max holds "<c x 100000> 100000", and after a successful
\* set_memory_limit(m) memory.max holds the decimal byte count of m, with
\* memory.swap.max written only when m has a swap limit.
C20_LimitFiles ==
    [][\A h \in Handles :
         /\ \A c \in LimitCpuInputs :
              (ctl[h].active /\ set_cpu_limit(h, c, TRUE) /\ last'.ret = "Ok") =>
                  fs'.cpuMax[ctl[h].id] = ToString(c \div 10) \o " 100000"
         /\ \A m \in LimitMemInputs :
              (ctl[h].active /\ set_memory_limit(h, m, TRUE, TRUE) /\ last'.ret = "Ok") =>
                  /\ fs'.memMax[ctl[h].id] = ToString(m.limit * 1048576)
                  /\ m.swap = 0 => fs'.swapMax[ctl[h].id] = fs.swapMax[ctl[h].id]
                  /\ m.swap # 0 => fs'.swapMax[ctl[h].id] = ToString(m.swap * 1048576)
      ]_vars

\* C15: the events of one monitor reach its sink in order: the first event
\* accepted after start() is Started, and every event carries the monitor's
\* container id.
C15_StartedFirst ==
    mon.log # <<>> =>
        /\ mon.log[1].kind = "Started"
        /\ \A i \in 1..Len(mon.log) : mon.log[i].id = mon.id

C15_Witness ==
    /\ Len(mon.log) >= 2
    /\ mon.log[1].kind = "Started"
    /\ mon.log[2].kind = "StatsUpdate"

C17_StopEndsTask ==
    mon.stopCalled ~> (mon.task \in {"done", "panicked"})

\* C18: a full event channel never makes the monitor task wait: the task can
\* always take its next step without the consumer receiving anything.
C18_FullChannelDoesNotBlock ==
    mon.task = "emit" => ENABLED TaskEmit

\* C19: between the creation of a MockBackend and its cleanup(), each stats()
\* returns cpu_usage, memory_peak and swap_peak no smaller than the stats()
\* before it, whatever set_cpu_limit, set_memory_limit and add_process calls
\* are interleaved.
C19_MockStatsMonotone ==
    mock.seen = 2 =>
        /\ mock.cur.cpu_usage >= mock.prev.cpu_usage
        /\ mock.cur.memory_peak >= mock.prev.memory_peak
        /\ mock.cur.swap_peak >= mock.prev.swap_peak

C19_Witness ==
    /\ mock.seen = 2
    /\ mock.cur.cpu_usage > mock.prev.cpu_usage
    /\ mock.state.cpu_limit # 0
    /\ mock.state.processes # <<>>

\* C21: for every cores value c >= 0, to_quota(c) is c * 100000 rounded to the
\* nearest integer (also when the product is not an integer), with period
\* 100000.
\* (An input whose product lies halfway between two integers may go either way.)
C21_QuotaRounded ==
    (calc.fn = "to_quota" /\ calc.done) =>
        LET down == calc.arg \div 10
            tenths == calc.arg % 10 IN
        /\ calc.out[2] = 100000
        /\ tenths < 5 => calc.out[1] = down
        /\ tenths > 5 => calc.out[1] = down + 1
        /\ tenths = 5 => calc.out[1] \in {down, down + 1}

\* The number of characters of a string, and the texts "." and "..".
RECURSIVE chars_count(_)
chars_count(s) == IF s = <<>> THEN 0 ELSE Head(s).n + chars_count(Tail(s))

AllowedChars(s) == \A i \in 1..Len(s) : s[i].ch \in {"a", "e_acute", "-", "_"}

PathSafe(s) ==
    /\ \A i \in 1..Len(s) : s[i].ch # "/"
    /\ s # <<[ch |-> ".", n |-> 1]>>
    /\ s # <<[ch |-> ".", n |-> 2]>>

C23_DropTeardownOnce ==
    [][\A h \in Handles :
         /\ ctl'[h].nReparent <= 1 /\ ctl'[h].nRmdir <= 1
         /\ (Live(h) /\ last'.op = "drop" /\ last'.h = h /\ ctl'[h].st = "dropped") =>
               IF ctl[h].active
                 THEN /\ ctl'[h].nReparent = ctl[h].nReparent + 1
                      /\ ctl'[h].nRmdir = ctl[h].nRmdir + 1
                      /\ ~ctl'[h].active
                      /\ last'.touched
                      /\ fs' = remove_cgroup_directory(
                                  move_processes_to_root(fs, ctl[h].id,
                                      procs(fs, ctl[h].id) \ procs(fs', ctl[h].id)),
                                  ctl[h].id)
                 ELSE /\ fs' = fs
                      /\ ~last'.touched
                      /\ ctl'[h].nReparent = ctl[h].nReparent
                      /\ ctl'[h].nRmdir = ctl[h].nRmdir]_vars

\* C23 witness: a controller was cleaned up and then dropped.
C23_Witness ==
    /\ last.op = "drop" /\ ~last.wasActive /\ ~last.touched
    /\ ctl[last.h].st = "dropped"
    /\ ctl[last.h].nReparent = 1 /\ ctl[last.h].nRmdir = 1

\* The child has been forked and has not ended yet.
ChildAlive == child.pc \in {"born", "redirected", "isolated", "running"}

\* C24: in a run with monitoring the command child is reaped first, then the
\* monitor is stopped and its task joined, then the controller is cleaned up:
\* the runner's controllers reparent or rmdir the leaf neither while the child
\* is alive nor while the monitor task can still call stats().
C24_TeardownOrder ==
    run.monitor =>
        /\ (ctl[Main].nReparent >= 1 \/ ctl[Main].nRmdir >= 1) =>
              (~ChildAlive /\ ctl[Mon].st # "live")
        /\ (ctl[Mon].nReparent >= 1 \/ ctl[Mon].nRmdir >= 1) => ~ChildAlive
        /\ (run.pc = "returned" /\ run.ret = "Ok") =>
              (child.pc = "reaped" /\ ctl[Mon].st = "dropped" /\ ctl[Main].st = "dropped")

\* C25: between fork and exec the child performs only async-signal-safe
\* operations: it never allocates and never takes a lock that another thread
\* of the parent could have held at fork time, so it cannot block forever
\* before reaching execvp.
C25_ChildAsyncSignalSafe ==
    /\ child.pc # "blocked"
    /\ ~child.allocated

\* C26: when the mount namespace is enabled, the child has remounted /proc
\* (or tried to, a failure being tolerated) after the mount-namespace unshare
\* and before execvp.
C26_ProcRemounted ==
    (child.execd /\ run.config.mount) =>
        /\ "CLONE_NEWNS" \in child.ns
        /\ child.procRemount \in {"done", "failed"}

\* C27: every fatal failure in the child between fork and exec (dup2,
\* namespace setup, invalid program or argument string, exec) ends the child
\* with an exit code of at least 126.
C27_FatalExitAtLeast126 ==
    (child.pc = "zombie" /\ ~child.execd) =>
        (child.status.kind = "Exited" /\ child.status.val >= 126)

\* C28: while waiting for the child the supervisor retries waitpid on EINTR
\* and treats ECHILD as exit code 0; neither makes execute() return an error.
C28_WaitErrorsDowngraded ==
    run.werrno \in {"EINTR", "ECHILD"} =>
        /\ run.ret # "Err"
        /\ run.werrno = "ECHILD" => (run.result.tag = "Ok" /\ run.result.exit_code = 0)

\* C29: created becomes true exactly when create() has successfully unshared
\* the namespaces; create() on an already-created manager performs no unshare
\* and no sethostname and returns Ok; after any sequence of create() calls the
\* manager has unshared at most once.
C29_CreatedOnce ==
    /\ child.mgr.nUnshare >= 1 => child.mgr.created
    /\ child.mgr.created =>
          (child.mgr.nUnshare >= 1 \/ to_clone_flags(child.mgr.config) \subseteq {"CLONE_NEWPID"})
    /\ child.mgr.lastFoundCreated =>
          /\ child.mgr.lastRet = "Ok"
          /\ ~child.mgr.lastUnshared /\ ~child.mgr.lastSethostname
    /\ child.mgr.nUnshare <= 1

\* C30: a controller is marked active only after its leaf directory has been
\* created; when CGroupController::new fails, no controller for that id has
\* been active and no cleanup action (reparenting, rmdir of the leaf) has
\* been performed.
C30_ActiveOnlyAfterCreate ==
    [][\A h \in Handles :
         (last'.op = "new" /\ last'.h = h /\ ctl[h].st = "none") =>
            /\ last'.ret = "Ok" =>
                  (ctl'[h].active /\ fs'.leaf[ctl'[h].id])
            /\ last'.ret = "Err" =>
                  /\ ~ctl'[h].active
                  /\ ctl'[h].nReparent = 0 /\ ctl'[h].nRmdir = 0
                  /\ fs' = fs]_vars

\* The controllers enable_controllers_at has to enable at a level: the
\* required ones that cgroup.controllers shows and cgroup.subtree_control
\* does not.
C31_Missing(lv) ==
    {c \in {"cpu", "memory", "io"} :
        contains(lv.avail, c)
          /\ ~contains(IF lv.enabledOk THEN lv.enabled ELSE {}, c)}

C31_OwnWrites(lv, r) ==
    IF lv.control /\ lv.availOk
      THEN /\ {r.writes[i] : i \in 1..Len(r.writes)} = {"+" \o c : c \in C31_Missing(lv)}
           /\ Len(r.writes) = Cardinality(C31_Missing(lv))
           /\ r.enabled = C31_Missing(lv) \cap lv.accepts
      ELSE r.writes = <<>>

C33_ParseFailuresAreZero ==
    ( /\ calc.fn = "stats" /\ calc.done
      /\ calc.arg.cpu_stat
      /\ calc.arg["memory.current"].st # "absent"
      /\ calc.arg["memory.peak"].st # "absent" ) =>
        /\ calc.out.ret = "Ok"
        /\ calc.out.v.cpu_usage = parse_or_0(calc.arg.usage_usec)
        /\ calc.out.v.cpu_throttled = parse_or_0(calc.arg.throttled_usec)
        /\ calc.out.v.memory_current = parse_or_0(calc.arg["memory.current"])
        /\ calc.out.v.memory_peak = parse_or_0(calc.arg["memory.peak"])
        /\ calc.out.v.swap_current = parse_or_0(calc.arg["memory.swap.current"])
        /\ calc.out.v.swap_peak = parse_or_0(calc.arg["memory.swap.peak"])

\* C34: when stats() fails with an error whose text contains "No such file"
\* the monitor task ends (it leaves the loop, it does not panic) and no
\* event is sent from then on; when stats() fails with any other error the
\* error is reported, nothing is sent for that tick and the task waits for
\* the next tick.
C34_GoneEndsTaskOtherErrorsContinue ==
    [][/\ (mon'.nErr = mon.nErr + 1) =>
            /\ mon'.log = mon.log /\ mon'.chan = mon.chan /\ mon'.outbox = <<>>
            /\ mon'.last_stats = mon.last_stats
            /\ IF \E i \in 1..Len(mon'.lastErr) : mon'.lastErr[i] = "No such file"
                 THEN mon'.task = "done" /\ mon'.reported = mon.reported
                 ELSE /\ mon'.task = "tick" /\ mon'.running
                      /\ mon'.reported = mon.reported + 1
       /\ (mon.task = "done") => (mon'.task = "done" /\ mon'.log = mon.log)]_vars

\* C34 witness: the task reported an error that was not "No such file", went
\* on to emit a StatsUpdate, and then ended on a "No such file" error.
C34_Witness ==
    /\ mon.reported = 1 /\ mon.nErr = 2 /\ mon.nUpdates >= 1
    /\ mon.lastErr[2] = "No such file"
    /\ mon.task = "done" /\ mon.running

\* C35: on a tick of a monitor with an event sink that has a previous
\* sample, a CpuThrottled event is emitted exactly when cpu_throttled grew by
\* more than 100 ms since that sample; its duration is the growth, and it is
\* emitted before the StatsUpdate of the tick, which comes last.
C35_ThrottledIffDeltaAbove100ms ==
    [][( /\ mon.task = "tick" /\ mon'.nOk = mon.nOk + 1
         /\ mon.hasTx /\ mon.last_stats.some
         /\ mon'.task # "panicked" ) =>
          LET s == mon'.pending.s
              delta == s.cpu_throttled - mon.last_stats.s.cpu_throttled
              out == mon'.outbox
              at == {i \in 1..Len(out) : out[i].kind = "CpuThrottled"}
          IN /\ mon'.pending.some
             /\ (delta > 100) <=> (at # {})
             /\ Cardinality(at) <= 1
             /\ \A i \in at : out[i] = CpuThrottled(mon.id, delta)
             /\ out[Len(out)] = StatsUpdate(mon.id, s)
             /\ \A i \in at : \A j \in 1..Len(out) :
                    out[j].kind = "StatsUpdate" => i < j]_vars

\* C35 witness: the channel accepted a CpuThrottled event of 200 ms (from
\* 100 ms to 300 ms of throttled time) followed by the StatsUpdate of the
\* same tick.
C35_Witness ==
    \E i \in 1..Len(mon.log) :
        /\ mon.log[i].kind = "CpuThrottled" /\ mon.log[i].val = 200
        /\ i < Len(mon.log)
        /\ mon.log[i + 1].kind = "StatsUpdate"
        /\ mon.log[i + 1].stats.cpu_throttled = 300

\* C36: on every tick of a monitor with an event sink on which
\* memory_current is above 80% of the memory limit the monitor knows (the
\* one get_memory_limit gives), a MemoryPressure event is emitted, and every
\* MemoryPressure event emitted carries a percentage above 80.
C36_PressureOnEveryTickAbove80 ==
    [][( /\ mon.task = "tick" /\ mon'.nOk = mon.nOk + 1
         /\ mon.hasTx /\ mon'.task # "panicked" ) =>
          LET s == mon'.pending.s
              lim == get_memory_limit(s)
              out == mon'.outbox
          IN /\ (lim.some /\ as_mb(s.memory_current) * 100 > 80 * as_mb(lim.limit)) =>
                    \E i \in 1..Len(out) : out[i].kind = "MemoryPressure"
             /\ \A i \in 1..Len(out) :
                    out[i].kind = "MemoryPressure" => out[i].val > 80]_vars

\* C37: the calls tasks make concurrently on one MockBackend are atomic.  At
\* every moment the state is the one the calls completed so far give when
\* applied one after the other, in the order in which they completed; so,
\* as long as cleanup() was not among them, call_count is the number of
\* calls made, every pid added is in processes, and cpu_limit is the limit of
\* the last set_cpu_limit.
C37_MockCallsSerialize ==
    /\ mock.state = mock.serial
    /\ ~mock.cleaned =>
          /\ mock.state.call_count = mock.made
          /\ \A p \in mock.added : Contains(mock.state.processes, p)
          /\ mock.state.cpu_limit = mock.lastCpu

\* C37 witness: after two calls were completed and counted, one of them an
\* add_process, task 1 holds the mutex in its next call while task 2 waits
\* for it.
C37_Witness ==
    /\ mock.lock = 1 /\ mock.tasks[1].pc = "locked"
    /\ mock.tasks[2].pc = "lock"
    /\ ~mock.cleaned /\ mock.state.call_count = 2
    /\ mock.added # {}

\* C38: the parent's draining of the two pipes one after the other never
\* leaves parent and child waiting for each other: it does not happen that
\* the parent waits in read() for stdout, which is empty, while the child
\* waits in write() for room in stderr, which is full.
C38_NoPipeDeadlock ==
    ~( /\ run.ex.pc = "read_out" /\ run.ex.buf.out = 0
       /\ run.ex.cpc = "running"
       /\ run.ex.cwr = "err" /\ run.ex.buf.err = PipeCap )

\* C39: when execute() has returned in the parent, on whichever path, every
\* pipe descriptor the call created has been closed exactly once.
C39_PipeFdsClosedOnce ==
    run.ex.pc = "returned" =>
        \A n \in FdNames : run.ex.fds[n].made => run.ex.fds[n].closes = 1

\* C40: the monitor task never ends by a panic, whatever snapshots stats()
\* returns, a snapshot whose cpu_throttled is below that of the previous
\* sample included: it runs until stop() or a "No such file" error ends it.
C40_TaskNeverPanics ==
    mon.task # "panicked"

====
